---------------------------- MODULE Spec2Model ----------------------------
(***************************************************************************)
(* PVGPU host backend: the shared-memory command ring, the replay engine's *)
(* process_command and the service loop of BackendService::run_loop.       *)
(*                                                                         *)
(* Counters (producer_ptr, consumer_ptr, processed) are byte counts.  The  *)
(* ring memory is an array of 32-bit words; every wire structure of the    *)
(* protocol is a sequence of u32 fields (a u64 is two words, low first).   *)
(***************************************************************************)
EXTENDS Integers, Sequences, FiniteSets, TLC

(***************************************************************************)
(* Bounds of the model.                                                    *)
(***************************************************************************)
\* ring_size of the control region, in words
RingWords == 24
\* heap_size of the control region, in bytes
HeapSize == 16
\* records the guest writes in one run
MaxRecords == 2
\* counter values above a multiple of the ring size that a read is tried at
PtrSpan == 8
\* a counter value that does not fit in 30 bits
PtrHigh == 1073741824
\* modulus standing for 2^32: word values are below it
U32Mod == 32768
\* stands for the 1 MiB batch cap of the drain loop
BatchCap == 80
\* set_error calls followed through their atomic operations
MaxErrorCalls == 2
\* control messages the device sends in a session
MaxMessages == 3

(***************************************************************************)
(* Protocol constants.                                                     *)
(***************************************************************************)
WordBytes == 4
PVGPU_CMD_HEADER_SIZE == 16
PVGPU_CMD_CREATE_RESOURCE == 1
PVGPU_CMD_DESTROY_RESOURCE == 2
PVGPU_CMD_MAP_RESOURCE == 3
PVGPU_CMD_UNMAP_RESOURCE == 4
PVGPU_CMD_UPDATE_RESOURCE == 5
PVGPU_CMD_OPEN_RESOURCE == 7
PVGPU_CMD_CREATE_SHADER == 48
PVGPU_CMD_SET_RENDER_TARGET == 257
PVGPU_CMD_SET_VIEWPORT == 258
PVGPU_CMD_SET_SCISSOR == 259
PVGPU_CMD_SET_SAMPLER == 264
PVGPU_CMD_SET_VERTEX_BUFFER == 266
PVGPU_CMD_SET_SHADER_RESOURCE == 270
PVGPU_CMD_DRAW == 513
PVGPU_CMD_DRAW_INDEXED == 514
PVGPU_CMD_DRAW_INSTANCED == 515
PVGPU_CMD_DRAW_INDEXED_INSTANCED == 516
PVGPU_CMD_DISPATCH == 517
PVGPU_CMD_CLEAR_RENDER_TARGET == 518
PVGPU_CMD_FENCE == 769
PVGPU_CMD_PRESENT == 770
PVGPU_CMD_FLUSH == 771
PVGPU_CMD_WAIT_FENCE == 772
PVGPU_CMD_RESIZE_BUFFERS == 773
PVGPU_ERROR_RESOURCE_NOT_FOUND == 2
PVGPU_ERROR_OUT_OF_MEMORY == 3
PVGPU_ERROR_SHADER_COMPILE == 4
PVGPU_ERROR_DEVICE_LOST == 5
PVGPU_ERROR_INVALID_PARAMETER == 6
PVGPU_ERROR_INTERNAL == 12
D3D11_BIND_SHADER_RESOURCE == 8
D3D11_BIND_RENDER_TARGET == 32
MaxTextureDim == 16384
StatsMod == 8
PVGPU_MAGIC == 1347831632
PVGPU_VERSION == 65536
PVGPU_CONTROL_REGION_SIZE == 4096
MaxBufferSize == 1073741824

\* opcodes that process_command dispatches to a handler
DispatchedOpcodes ==
    {1, 2, 3, 4, 5, 6, 7, 48, 49} \cup (257..270) \cup (513..519)
        \cup {769, 770, 771, 773}

\* the handlers this model translates; the guest of the model emits no other
ModelledOpcodes ==
    {PVGPU_CMD_CREATE_RESOURCE, PVGPU_CMD_DESTROY_RESOURCE, PVGPU_CMD_FENCE,
     PVGPU_CMD_PRESENT, PVGPU_CMD_FLUSH, PVGPU_CMD_RESIZE_BUFFERS,
     PVGPU_CMD_CREATE_SHADER, PVGPU_CMD_SET_RENDER_TARGET,
     PVGPU_CMD_CLEAR_RENDER_TARGET}

(***************************************************************************)
(* State.                                                                  *)
(***************************************************************************)
VARIABLES
    \* shared memory: the ring and the control region
    ring, producer_ptr, consumer_ptr, host_fence_completed,
    status, error_code, error_data,
    \* the guest: bytes written so far, records written so far, the fence
    \* value of a written record that is not yet wholly published (0: none)
    gpos, nrec, gfence,
    \* the control region's fields the guest owns: guest_fence_request, and
    \* magic, version and the ring and heap descriptors
    guest_fence_request, descriptor,
    \* BackendService: the position in run_loop, its locals, the shutdown flag
    pc, last_irq_fence, processed, loop_present, device_lost_reported, shutdown,
    \* CommandProcessor
    current_fence, pending_present, pending_resize, resources, stats,
    \* D3D11Renderer: the render-target views and the depth-stencil view bound
    current_rtvs, current_dsv,
    \* PresentationPipeline: config.width, config.height
    pres_dims,
    \* control channel: the IRQ requests handed to send_message (a failed
    \* write is only logged by the loop and changes none of its state)
    irq_sent,
    \* history: the fence values of the wholly published FENCE records, the
    \* consumer positions handed to process_command, the number of stores to
    \* host_fence_completed, the drain step just taken (tick tells two
    \* successive passes of the drain loop apart), and the result of a call
    \* of read_pending_commands
    published, handed, fence_stores, last, rd,
    \* ControlRegion::set_error in progress on the service thread: the number
    \* of calls begun, the arguments of the last, how many of its three atomic
    \* operations are done, and the calls that wrote error_code and error_data
    set_err,
    \* the guest's reads of error_code and of error_data, each with the call
    \* that wrote the value read
    guest_view,
    \* control channel: the messages the device has written to the pipe and
    \* the service has not read yet, the position of the pipe reader thread,
    \* the shutdown event of the PipeServer, BackendService::shared_memory,
    \* and (history) the first message read with the result of the
    \* validation, the number of messages sent, and the number of Handshake
    \* messages the pipe reader has read
    pipe, reader, shutdown_event, shared_memory, hs,
    \* PresentationPipeline: frame_count, and the native objects of the
    \* pipeline (swapchain, backbuffer_rtv, shared_texture, shared_handle)
    frame_count, pipeline,
    \* history: the calls of PresentationPipeline::present made so far
    present_calls,
    \* the direct calls of PresentationPipeline::resize made so far: their
    \* number, and the arguments, result and native-call count of the last
    resize_log,
    \* the native buffers and textures alive on the device, by the number
    \* that names the object, with the bytes of the buffers
    natives,
    \* CommandProcessor::active_maps, by (resource_id, subresource)
    active_maps,
    \* the bytes of the resource heap of the shared memory
    heap

\* the size of the ring in bytes: the ring_size field of the control region
RingSize == Len(ring) * WordBytes

\* the header the guest device writes before the session: magic, version,
\* and the ring after the control region and the heap after the ring
GuestDescriptor ==
    [magic |-> PVGPU_MAGIC, version |-> PVGPU_VERSION,
     ring_offset |-> PVGPU_CONTROL_REGION_SIZE, ring_size |-> RingSize,
     heap_offset |-> PVGPU_CONTROL_REGION_SIZE + RingSize,
     heap_size |-> HeapSize]

Min(a, b) == IF a < b THEN a ELSE b
Max(a, b) == IF a < b THEN b ELSE a

(***************************************************************************)
(* Wire records as the guest encodes them (protocol.rs structures).        *)
(***************************************************************************)
CommandHeader(op, size, rid) == <<op, size, rid, 0>>

CmdFence(v, size) ==
    CommandHeader(PVGPU_CMD_FENCE, size, 0) \o <<v % U32Mod, v \div U32Mod>>

CmdPresent(bb) ==
    CommandHeader(PVGPU_CMD_PRESENT, 32, 0) \o <<bb, 1, 0, 0>>

CmdResizeBuffers(sw, w, h) ==
    CommandHeader(PVGPU_CMD_RESIZE_BUFFERS, 48, 0) \o <<sw, w, h, 0, 0, 0, 0, 0>>

CmdCreateResource(id, type, w, h, bind, off, dsize) ==
    CommandHeader(PVGPU_CMD_CREATE_RESOURCE, 64, id)
        \o <<type, 87, w, h, 1, 1, 1, 0, bind, 0, off, dsize>>

CmdDestroyResource(id) == CommandHeader(PVGPU_CMD_DESTROY_RESOURCE, 16, id)

CmdFlush == CommandHeader(PVGPU_CMD_FLUSH, 16, 0)

CmdWaitFence == CommandHeader(PVGPU_CMD_WAIT_FENCE, 16, 0)

CmdCreateShader(id, type, size, off) ==
    CommandHeader(PVGPU_CMD_CREATE_SHADER, 32, 0) \o <<id, type, size, off>>

\* rtv_ids holds the first num_rtvs ids; the other entries of the array are 0
CmdSetRenderTarget(num_rtvs, dsv_id, rtv_ids) ==
    CommandHeader(PVGPU_CMD_SET_RENDER_TARGET, 56, 0) \o <<num_rtvs, dsv_id>>
        \o [i \in 1..8 |-> IF i <= Len(rtv_ids) THEN rtv_ids[i] ELSE 0]

CmdClearRenderTarget(rtv_id) ==
    CommandHeader(PVGPU_CMD_CLEAR_RENDER_TARGET, 36, 0) \o <<rtv_id, 0, 0, 0, 0>>

CmdOpenResource(new_id, original_id, type) ==
    CommandHeader(PVGPU_CMD_OPEN_RESOURCE, 44, new_id)
        \o <<original_id, type, 0, 0, 0, 0, 0>>

CmdMapResource(id, subresource, map_type, heap_offset) ==
    CommandHeader(PVGPU_CMD_MAP_RESOURCE, 48, 0)
        \o <<id, subresource, map_type, 0, heap_offset, 0, 0, 0>>

CmdUnmapResource(id, subresource, heap_offset, data_size) ==
    CommandHeader(PVGPU_CMD_UNMAP_RESOURCE, 32, 0)
        \o <<id, subresource, heap_offset, data_size>>

\* an update of the whole subresource: the box is all zeros
CmdUpdateResource(id, heap_offset, data_size) ==
    CommandHeader(PVGPU_CMD_UPDATE_RESOURCE, 64, 0)
        \o <<id, 0, heap_offset, data_size, 0, 0, 0, 0, 0, 0, 0, 0>>

CmdDraw(vertex_count, start_vertex) ==
    CommandHeader(PVGPU_CMD_DRAW, 32, 0) \o <<vertex_count, start_vertex, 0, 0>>

CmdDispatch(x, y, z) ==
    CommandHeader(PVGPU_CMD_DISPATCH, 32, 0) \o <<x, y, z, 0>>

\* the header, num_viewports and the first viewport of the array (six f32)
CmdSetViewport(num_viewports) ==
    CommandHeader(PVGPU_CMD_SET_VIEWPORT, 44, 0)
        \o <<num_viewports, 0, 0, 1, 1, 0, 1>>

\* the header, num_rects and the first rectangle of the array
CmdSetScissor(num_rects) ==
    CommandHeader(PVGPU_CMD_SET_SCISSOR, 36, 0) \o <<num_rects, 0, 0, 1, 1>>

\* the header, start_slot, num_buffers and the first binding of the array
CmdSetVertexBuffer(start_slot, num_buffers) ==
    CommandHeader(PVGPU_CMD_SET_VERTEX_BUFFER, 36, 0)
        \o <<start_slot, num_buffers, 3, 4, 0>>

\* the header, stage, start_slot, num_samplers and the first id of the array
CmdSetSamplers(stage, start_slot, num_samplers) ==
    CommandHeader(PVGPU_CMD_SET_SAMPLER, 32, 0)
        \o <<stage, start_slot, num_samplers, 0>>

\* the header, stage, start_slot, num_views and the first id of the array
CmdSetShaderResources(stage, start_slot, num_views) ==
    CommandHeader(PVGPU_CMD_SET_SHADER_RESOURCE, 32, 0)
        \o <<stage, start_slot, num_views, 0>>

\* records whose declared size is the size of their structure
WellFormedRecords ==
    { CmdFence(1, 24), CmdFence(2, 24), CmdPresent(1), CmdResizeBuffers(0, 2, 3),
      CmdCreateResource(1, 2, 1, 1, D3D11_BIND_RENDER_TARGET, 0, 0),
      CmdCreateResource(1, 2, 0, 1, D3D11_BIND_RENDER_TARGET, 0, 0),
      CmdCreateResource(2, 5, 0, 0, 0, 0, 0),
      CmdCreateResource(2, 5, 0, 0, 0, 4, 8),
      CmdDestroyResource(1), CmdWaitFence }

\* records whose header declares less than the header size
ShortRecords == { CmdFence(2, 0), CmdFence(1, 8) }

GuestRecords == WellFormedRecords \cup ShortRecords

(***************************************************************************)
(* Option values.                                                          *)
(***************************************************************************)
None == <<>>
Some(x) == <<x>>

(***************************************************************************)
(* Shared-memory transport (shmem.rs, protocol.rs).                        *)
(***************************************************************************)
\* ControlRegion::pending_bytes: producer_ptr.saturating_sub(consumer_ptr)
pending_bytes(c, p) == IF p > c THEN p - c ELSE 0

\* available_len without the clip at the end of the ring
available_len_unclipped(pending, ringLen, offset) == pending

\* available_len clipped at the ring size, not at the end of the ring
available_len_from_zero(pending, ringLen, offset) == Min(pending, ringLen)

\* the length of the slice read_pending_commands takes from the ring offset on
available_len(pending, ringLen, offset) == Min(pending, ringLen - offset)

\* SharedMemory::read_pending_commands: None, or the slice (start, len) of
\* the ring and the pending byte count
read_pending_commands(c, p) ==
    LET pending == pending_bytes(c, p)
        offset == c % RingSize
        available == available_len(pending, RingSize, offset)
    IN IF pending = 0
       THEN [some |-> FALSE, start |-> 0, len |-> 0, pending |-> 0]
       ELSE [some |-> TRUE, start |-> offset, len |-> available, pending |-> pending]

\* the k-th u32 read through a pointer to ring byte offset start; a read past
\* the end of the ring mapping yields the value oob
Fetch(mem, start, k, oob) ==
    LET idx == (start \div WordBytes) + k
    IN IF idx < Len(mem) THEN mem[idx + 1] ELSE oob

(***************************************************************************)
(* Error messages: a message is a sequence of text pieces; a resource id   *)
(* is formatted in decimal, one piece per digit.                           *)
(***************************************************************************)
DigitChars == <<"0", "1", "2", "3", "4", "5", "6", "7", "8", "9">>

RECURSIVE ToDec(_)
ToDec(n) ==
    IF n < 10 THEN <<DigitChars[n + 1]>>
    ELSE ToDec(n \div 10) \o <<DigitChars[(n % 10) + 1]>>

IsDigit(ch) == \E d \in 1..10 : DigitChars[d] = ch

DigitVal(ch) == (CHOOSE d \in 1..10 : DigitChars[d] = ch) - 1

RECURSIVE DecValue(_)
DecValue(s) ==
    IF s = <<>> THEN 0
    ELSE 10 * DecValue(SubSeq(s, 1, Len(s) - 1)) + DigitVal(s[Len(s)])

\* str::parse::<u32>().ok(): None unless the text is a nonempty digit string
ParseU32(s) ==
    IF s # <<>> /\ \A i \in 1..Len(s) : IsDigit(s[i])
    THEN Some(DecValue(s)) ELSE None

unwrap_or(o, d) == IF o = None THEN d ELSE o[1]

starts_with(msg, piece) == msg # <<>> /\ msg[1] = piece

contains(msg, piece) == \E i \in 1..Len(msg) : msg[i] = piece

ShaderCompileMsg(id) == <<"SHADER_COMPILE:">> \o ToDec(id)

(***************************************************************************)
(* Resource table (d3d11.rs): the live entries of the slab, by id.         *)
(***************************************************************************)
slab_get(res, id) == IF id \in DOMAIN res THEN Some(res[id]) ELSE None

slab_insert(res, id, e) ==
    [i \in (DOMAIN res) \cup {id} |-> IF i = id THEN e ELSE res[i]]

\* a removal that also drops every other entry backed by the same native
\* object
slab_remove_native(res, id) ==
    [i \in {j \in (DOMAIN res) \ {id} :
              ~ ( /\ id \in DOMAIN res
                  /\ "native" \in DOMAIN res[id] /\ "native" \in DOMAIN res[j]
                  /\ res[j].native = res[id].native )} |-> res[i]]

slab_remove(res, id) == [i \in (DOMAIN res) \ {id} |-> res[i]]

get_texture(res, id) ==
    IF id \in DOMAIN res /\ res[id].kind = "Texture2D" THEN Some(res[id]) ELSE None

\* the function f with key k set to v
Put(f, k, v) == [i \in (DOMAIN f) \cup {k} |-> IF i = k THEN v ELSE f[i]]

get_buffer(res, id) ==
    IF id \in DOMAIN res /\ res[id].kind = "Buffer" THEN Some(res[id]) ELSE None

HasBit(x, b) == (x \div b) % 2 = 1

\* the entries that hold a reference to a native texture or buffer
HoldsNative(entry) == entry.kind \in {"Texture2D", "Buffer"}

\* the name of the next native object the device creates: one that no live
\* object bears
fresh_native(nats) ==
    CHOOSE n \in 1..(Cardinality(DOMAIN nats) + 1) : n \notin DOMAIN nats

\* COM reference counting: a native object lives as long as an entry of
\* the table or an active map refers to it
release(e) ==
    LET held == {e.resources[i].native :
                    i \in {j \in DOMAIN e.resources : HoldsNative(e.resources[j])}}
                \cup {e.active_maps[k].original : k \in DOMAIN e.active_maps}
    IN [e EXCEPT !.natives = [n \in (DOMAIN @) \cap held |-> @[n]]]

Ok(e) == [ok |-> TRUE, msg |-> <<>>, eng |-> e, abort |-> FALSE]
Err(m, e) == [ok |-> FALSE, msg |-> m, eng |-> e, abort |-> FALSE]

\* a panic: an index or a slice range out of the bounds of an array; nothing
\* in the service catches it, and the thread that runs the loop ends
Abort(m, e) == [ok |-> FALSE, msg |-> m, eng |-> e, abort |-> TRUE]

\* D3D11Renderer::create_texture2d; nat is what the native device answers
create_texture2d(e, id, width, height, format, bind, nat) ==
    IF width = 0 \/ height = 0 THEN Err(<<"Invalid texture dimensions">>, e)
    ELSE IF width > MaxTextureDim \/ height > MaxTextureDim
    THEN Err(<<"Texture dimensions exceed maximum">>, e)
    ELSE IF nat = "oom" THEN Err(<<"OutOfMemory", ": texture creation failed">>, e)
    ELSE IF nat = "fail" THEN Err(<<"Texture creation failed: ", "HRESULT">>, e)
    ELSE IF nat = "viewfail"
            /\ (HasBit(bind, D3D11_BIND_SHADER_RESOURCE)
                \/ HasBit(bind, D3D11_BIND_RENDER_TARGET))
    THEN Err(<<"HRESULT">>, e)
    ELSE IF nat = "viewoom"
            /\ (HasBit(bind, D3D11_BIND_SHADER_RESOURCE)
                \/ HasBit(bind, D3D11_BIND_RENDER_TARGET))
    THEN Err(<<"Not enough storage is available to complete this operation.",
               " (0x8007000E)">>, e)
    ELSE LET n == fresh_native(e.natives)
         IN Ok(release([e EXCEPT
                !.natives = Put(@, n, [kind |-> "Texture2D", data |-> <<>>]),
                !.resources =
                    slab_insert(@, id,
                        [kind |-> "Texture2D", width |-> width, height |-> height,
                         format |-> format,
                         srv |-> HasBit(bind, D3D11_BIND_SHADER_RESOURCE),
                         rtv |-> HasBit(bind, D3D11_BIND_RENDER_TARGET),
                         native |-> n])]))

\* D3D11Renderer::create_buffer; the bytes the buffer holds at creation
\* are taken to be 0
create_buffer(e, id, size, bind, nat) ==
    IF size = 0 THEN Err(<<"Invalid buffer size">>, e)
    ELSE IF size > MaxBufferSize THEN Err(<<"Buffer size exceeds maximum">>, e)
    ELSE IF nat = "oom" THEN Err(<<"OutOfMemory", ": buffer creation failed">>, e)
    ELSE IF nat = "fail" THEN Err(<<"Buffer creation failed: ", "HRESULT">>, e)
    ELSE LET n == fresh_native(e.natives)
         IN Ok(release([e EXCEPT
                !.natives = Put(@, n, [kind |-> "Buffer",
                                       data |-> [i \in 1..size |-> 0]]),
                !.resources =
                    slab_insert(@, id,
                        [kind |-> "Buffer", size |-> size, bind_flags |-> bind,
                         native |-> n])]))

ShaderKind(type) ==
    CASE type = 5 -> "VertexShader" [] type = 6 -> "PixelShader"
      [] type = 7 -> "GeometryShader" [] type = 8 -> "HullShader"
      [] type = 9 -> "DomainShader" [] OTHER -> "ComputeShader"

\* D3D11Renderer::create_vertex_shader and its five siblings
create_shader(e, id, type, bytecodeLen, nat) ==
    IF bytecodeLen = 0 THEN Err(<<"Shader bytecode is empty">>, e)
    ELSE IF nat = "ok"
    THEN Ok(release([e EXCEPT
                !.resources = slab_insert(@, id, [kind |-> ShaderKind(type)])]))
    ELSE Err(<<"shader compilation failed: ", "HRESULT">>, e)

(***************************************************************************)
(* Replay engine (command_processor.rs).  The engine state e is the record *)
(* [current_fence, pending_present, pending_resize, resources].  A handler *)
(* reads its structure through the data pointer: word k of the record is   *)
(* Fetch(mem, start, k, oob), whatever the length of the slice.            *)
(***************************************************************************)
\* CommandProcessor::handle_create_resource
handle_create_resource(mem, start, oob, nat, e) ==
    LET resource_id   == Fetch(mem, start, 2, oob)
        resource_type == Fetch(mem, start, 4, oob)
        format        == Fetch(mem, start, 5, oob)
        width         == Fetch(mem, start, 6, oob)
        height        == Fetch(mem, start, 7, oob)
        bind_flags    == Fetch(mem, start, 12, oob)
        heap_offset   == Fetch(mem, start, 14, oob)
        data_size     == Fetch(mem, start, 15, oob)
        \* the length of initial_data, None when no data is taken from the heap
        initial_data  ==
            IF data_size > 0 /\ heap_offset > 0
            THEN IF heap_offset + data_size <= HeapSize THEN Some(data_size) ELSE None
            ELSE None
    IN CASE resource_type = 2 ->
              create_texture2d(e, resource_id, width, height, format, bind_flags, nat)
         [] resource_type = 4 ->
              create_buffer(e, resource_id, width, bind_flags, nat)
         [] resource_type \in 5..10 ->
              IF initial_data # None
              THEN LET r == create_shader(e, resource_id, resource_type,
                                          initial_data[1], nat)
                   IN IF r.ok THEN r ELSE Err(ShaderCompileMsg(resource_id), e)
              ELSE Err(ShaderCompileMsg(resource_id), e)
         [] OTHER -> Ok(e)

\* CommandProcessor::handle_destroy_resource
handle_destroy_resource(mem, start, oob, e) ==
    Ok(release([e EXCEPT !.resources = slab_remove(@, Fetch(mem, start, 2, oob))]))

\* D3D11Renderer::register_texture and register_buffer: an entry for the
\* native object of entry orig under id, described by the object's own
\* description, with no views
register_texture(e, id, orig) ==
    release([e EXCEPT !.resources =
        slab_insert(@, id,
            [kind |-> "Texture2D", width |-> orig.width, height |-> orig.height,
             format |-> orig.format, srv |-> FALSE, rtv |-> FALSE,
             native |-> orig.native])])

register_buffer(e, id, orig) ==
    release([e EXCEPT !.resources =
        slab_insert(@, id,
            [kind |-> "Buffer", size |-> orig.size, bind_flags |-> orig.bind_flags,
             native |-> orig.native])])

\* handle_open_resource's match on resource_type and on the original's kind
open_type_matches(entry, resource_type) ==
    \/ resource_type = 2 /\ entry.kind = "Texture2D"
    \/ resource_type = 4 /\ entry.kind = "Buffer"

\* CommandProcessor::handle_open_resource
handle_open_resource(mem, start, oob, e) ==
    LET new_id        == Fetch(mem, start, 2, oob)
        original_id   == Fetch(mem, start, 4, oob)
        resource_type == Fetch(mem, start, 5, oob)
        orig          == slab_get(e.resources, original_id)
    IN IF orig # None /\ open_type_matches(orig[1], resource_type)
       THEN IF orig[1].kind = "Texture2D"
            THEN Ok(register_texture(e, new_id, orig[1]))
            ELSE Ok(register_buffer(e, new_id, orig[1]))
       ELSE Ok(e)

\* byte i (from 0) of the memory behind a pointer into the heap slice
HeapByte(hp, i, oob) == IF i < Len(hp) THEN hp[i + 1] ELSE oob

\* D3D11Renderer::map_resource: a staging copy of the resource, filled from
\* it for the map types Read (1) and ReadWrite (3).  The field map_type of
\* the result is not in MapResult: it is kept to state properties of maps.
map_resource(e, id, subresource, map_type, nat) ==
    LET r == slab_get(e.resources, id)
    IN IF r # None /\ HoldsNative(r[1])
       THEN IF nat \in {"oom", "fail"}
            THEN [ok |-> FALSE, msg |-> <<"HRESULT">>, map |-> None]
            ELSE LET bytes == e.natives[r[1].native].data
                 IN [ok |-> TRUE, msg |-> <<>>,
                     map |-> Some([kind |-> r[1].kind,
                                   data |-> IF map_type \in {1, 3} THEN bytes
                                            ELSE [i \in 1..Len(bytes) |-> 0],
                                   original |-> r[1].native,
                                   map_type |-> map_type])]
       ELSE [ok |-> FALSE,
             msg |-> <<"MapResource: Invalid or unsupported resource ID ">>
                     \o ToDec(id),
             map |-> None]

\* CommandProcessor::handle_map_resource: the heap slice is not written
handle_map_resource(mem, start, hp, oob, nat, e) ==
    LET resource_id == Fetch(mem, start, 4, oob)
        subresource == Fetch(mem, start, 5, oob)
        map_type    == Fetch(mem, start, 6, oob)
        m == map_resource(e, resource_id, subresource, map_type, nat)
    IN IF m.ok
       THEN Ok(release([e EXCEPT !.active_maps =
                   Put(@, <<resource_id, subresource>>, m.map[1])]))
       ELSE Err(m.msg, e)

\* handle_unmap_resource's was_write
was_write(data_size) == data_size > 0

\* CommandProcessor::handle_unmap_resource with D3D11Renderer::unmap_resource:
\* data_size bytes of the heap go to the staging copy, which is then copied
\* over the original when data_size > 0 (only as much of the heap as the
\* staging copy holds is modelled)
handle_unmap_resource(mem, start, hp, oob, e) ==
    LET resource_id == Fetch(mem, start, 4, oob)
        subresource == Fetch(mem, start, 5, oob)
        heap_offset == Fetch(mem, start, 6, oob)
        data_size   == Fetch(mem, start, 7, oob)
        key == <<resource_id, subresource>>
    IN IF key \in DOMAIN e.active_maps
       THEN LET m == e.active_maps[key]
                staged ==
                    IF data_size > 0 /\ heap_offset + data_size <= Len(hp)
                    THEN [i \in 1..Len(m.data) |->
                             IF i <= data_size THEN hp[heap_offset + i]
                             ELSE m.data[i]]
                    ELSE m.data
                unmapped == [e EXCEPT !.active_maps =
                                [k \in (DOMAIN @) \ {key} |-> @[k]]]
            IN IF was_write(data_size) /\ m.original \in DOMAIN e.natives
               THEN Ok(release([unmapped EXCEPT
                          !.natives[m.original].data = staged]))
               ELSE Ok(release(unmapped))
       ELSE Ok(e)

\* D3D11Renderer::update_subresource without a box: the native call reads
\* as many bytes as the resource holds through the pointer to the data
update_subresource(e, id, hp, heap_offset, oob) ==
    LET r == slab_get(e.resources, id)
    IN IF r # None /\ HoldsNative(r[1])
       THEN Ok([e EXCEPT !.natives[r[1].native].data =
                   [i \in 1..Len(@) |-> HeapByte(hp, heap_offset + i - 1, oob)]])
       ELSE Err(<<"UpdateSubresource: Invalid resource ID ">> \o ToDec(id), e)

\* CommandProcessor::handle_update_resource (records without a box)
handle_update_resource(mem, start, hp, oob, e) ==
    LET resource_id == Fetch(mem, start, 4, oob)
        heap_offset == Fetch(mem, start, 6, oob)
        data_size   == Fetch(mem, start, 7, oob)
    IN IF heap_offset + data_size > Len(hp)
       THEN Err(<<"UpdateResource: heap_offset + data_size exceeds heap bounds">>, e)
       ELSE update_subresource(e, resource_id, hp, heap_offset, oob)

\* CommandProcessor::handle_fence
handle_fence(mem, start, oob, e) ==
    LET fence_value == Fetch(mem, start, 4, oob) + Fetch(mem, start, 5, oob) * U32Mod
    IN Ok([e EXCEPT !.current_fence = fence_value])

\* CommandProcessor::handle_present
handle_present(mem, start, oob, e) ==
    LET backbuffer_id == Fetch(mem, start, 4, oob)
        sync_interval == Fetch(mem, start, 5, oob)
    IN Ok([e EXCEPT !.pending_present = Some(<<backbuffer_id, sync_interval>>)])

\* CommandProcessor::handle_flush
handle_flush(e) == Ok(e)

\* CommandProcessor::handle_resize_buffers
handle_resize_buffers(mem, start, oob, e) ==
    LET swapchain_id == Fetch(mem, start, 4, oob)
        width        == Fetch(mem, start, 5, oob)
        height       == Fetch(mem, start, 6, oob)
    IN IF swapchain_id = 0 /\ width > 0 /\ height > 0
       THEN Ok([e EXCEPT !.pending_resize = Some(<<width, height>>)])
       ELSE Ok(e)

\* CommandProcessor::handle_create_shader: shader types 0..5 are the stages
\* that CREATE_RESOURCE numbers 5..10
handle_create_shader(mem, start, oob, nat, e) ==
    LET shader_id       == Fetch(mem, start, 4, oob)
        shader_type     == Fetch(mem, start, 5, oob)
        bytecode_size   == Fetch(mem, start, 6, oob)
        bytecode_offset == Fetch(mem, start, 7, oob)
    IN IF bytecode_size = 0 THEN Ok(e)
       ELSE IF bytecode_offset + bytecode_size > HeapSize
       THEN Err(<<"CreateShader: bytecode_offset + bytecode_size exceeds heap bounds">>, e)
       ELSE IF shader_type \in 0..5
       THEN create_shader(e, shader_id, shader_type + 5, bytecode_size, nat)
       ELSE Ok(e)

\* set_render_targets accepts the id: 0, a texture, or a render-target view
rtv_known(slab, id) ==
    \/ id = 0
    \/ /\ id \in DOMAIN slab
       /\ slab[id].kind \in {"Texture2D", "RenderTargetView"}

\* the view set_render_targets binds for an id it accepts: None for id 0
\* and for a texture without a render-target view
rtv_of(slab, id) ==
    IF id = 0 THEN None
    ELSE IF slab[id].kind = "Texture2D" /\ ~slab[id].rtv THEN None
    ELSE Some(id)

\* D3D11Renderer::set_render_targets; dsv_id is an Option
set_render_targets(e, rtv_ids, dsv_id) ==
    LET bad   == {i \in 1..Len(rtv_ids) : ~rtv_known(e.resources, rtv_ids[i])}
        first == CHOOSE i \in bad : \A j \in bad : i <= j
        d     == IF dsv_id = None \/ dsv_id[1] = 0 THEN None
                 ELSE slab_get(e.resources, dsv_id[1])
    IN IF bad # {}
       THEN Err(<<"Invalid RTV resource ID: ">> \o ToDec(rtv_ids[first]), e)
       ELSE IF dsv_id # None /\ dsv_id[1] # 0
               /\ (d = None \/ d[1].kind # "DepthStencilView")
       THEN Err(<<"Invalid DSV resource ID: ">> \o ToDec(dsv_id[1]), e)
       ELSE Ok([e EXCEPT
                  !.current_rtvs = [i \in 1..Len(rtv_ids) |->
                                       rtv_of(e.resources, rtv_ids[i])],
                  !.current_dsv = IF d = None THEN None ELSE dsv_id])

\* CommandProcessor::handle_set_render_target; the slice
\* rtv_ids[..num_rtvs] panics when num_rtvs exceeds the 8 entries of the
\* array
handle_set_render_target(mem, start, oob, e) ==
    LET num_rtvs == Fetch(mem, start, 4, oob)
        dsv_id   == Fetch(mem, start, 5, oob)
    IN IF num_rtvs > 8
       THEN Abort(<<"range end index out of range for slice">>, e)
       ELSE set_render_targets(e,
                [i \in 1..num_rtvs |-> Fetch(mem, start, 5 + i, oob)],
                IF dsv_id = 0 THEN None ELSE Some(dsv_id))

\* CommandProcessor::handle_clear_render_target and
\* D3D11Renderer::clear_render_target: the clear touches no state of the
\* model, and an id that names no render-target view is only logged
handle_clear_render_target(mem, start, oob, e) == Ok(e)

\* the slice array[..count] of an inline array of cap entries, as
\* handle_set_viewport and handle_set_scissor take it: a panic when count
\* exceeds cap; the renderer call that follows touches no state of the model
slice_to(count, cap, e) ==
    IF count > cap
    THEN Abort(<<"range end index out of range for slice">>, e)
    ELSE Ok(e)

\* (count as usize).min(cap)
clamp_count(count, cap) == Min(count, cap)

\* the loop over array[i], i < count, of an inline array of cap entries, as
\* handle_set_vertex_buffer, handle_set_sampler and
\* handle_set_shader_resource run it over the clamped count
index_each(count, cap, e) ==
    IF count > cap
    THEN Abort(<<"index out of bounds">>, e)
    ELSE Ok(e)

\* CommandProcessor::handle_set_viewport: viewports[..num_viewports]
handle_set_viewport(mem, start, oob, e) ==
    slice_to(Fetch(mem, start, 4, oob), 16, e)

\* CommandProcessor::handle_set_scissor: rects[..num_rects]
handle_set_scissor(mem, start, oob, e) ==
    slice_to(Fetch(mem, start, 4, oob), 16, e)

\* CommandProcessor::handle_set_vertex_buffer
handle_set_vertex_buffer(mem, start, oob, e) ==
    index_each(clamp_count(Fetch(mem, start, 5, oob), 16), 16, e)

\* CommandProcessor::handle_set_sampler
handle_set_sampler(mem, start, oob, e) ==
    index_each(clamp_count(Fetch(mem, start, 6, oob), 16), 16, e)

\* CommandProcessor::handle_set_shader_resource
handle_set_shader_resource(mem, start, oob, e) ==
    index_each(clamp_count(Fetch(mem, start, 6, oob), 128), 128, e)

\* the opcodes counted as draw calls
DrawCommands ==
    {PVGPU_CMD_DRAW, PVGPU_CMD_DRAW_INDEXED, PVGPU_CMD_DRAW_INSTANCED,
     PVGPU_CMD_DRAW_INDEXED_INSTANCED, PVGPU_CMD_DISPATCH}

\* handle_draw, handle_draw_indexed, handle_draw_instanced,
\* handle_draw_indexed_instanced and handle_dispatch: the renderer call
\* touches no state of the model
handle_draw(e) == Ok(e)

\* a default arm that rejects the record
handle_unknown_rejects(e) == Err(<<"Unknown command type">>, e)

\* the default arm of the dispatch: a warning, nothing else
handle_unknown(e) == Ok(e)

\* process_command's first test: the slice is shorter than a header
too_small(len) == len < PVGPU_CMD_HEADER_SIZE

\* process_command without its second test
size_exceeds_never(size, len) == FALSE

\* process_command's second test: the declared size exceeds the slice
size_exceeds(size, len) == size > len

\* the match on header.command_type
dispatch(mem, start, hp, oob, nat, op, e) ==
    CASE op = PVGPU_CMD_CREATE_RESOURCE  -> handle_create_resource(mem, start, oob, nat, e)
      [] op = PVGPU_CMD_DESTROY_RESOURCE -> handle_destroy_resource(mem, start, oob, e)
      [] op = PVGPU_CMD_OPEN_RESOURCE    -> handle_open_resource(mem, start, oob, e)
      [] op = PVGPU_CMD_MAP_RESOURCE     ->
                                  handle_map_resource(mem, start, hp, oob, nat, e)
      [] op = PVGPU_CMD_UNMAP_RESOURCE   ->
                                  handle_unmap_resource(mem, start, hp, oob, e)
      [] op = PVGPU_CMD_UPDATE_RESOURCE  ->
                                  handle_update_resource(mem, start, hp, oob, e)
      [] op = PVGPU_CMD_CREATE_SHADER    -> handle_create_shader(mem, start, oob, nat, e)
      [] op = PVGPU_CMD_SET_RENDER_TARGET ->
                                  handle_set_render_target(mem, start, oob, e)
      [] op = PVGPU_CMD_SET_VIEWPORT     -> handle_set_viewport(mem, start, oob, e)
      [] op = PVGPU_CMD_SET_SCISSOR      -> handle_set_scissor(mem, start, oob, e)
      [] op = PVGPU_CMD_SET_SAMPLER      -> handle_set_sampler(mem, start, oob, e)
      [] op = PVGPU_CMD_SET_VERTEX_BUFFER ->
                                  handle_set_vertex_buffer(mem, start, oob, e)
      [] op = PVGPU_CMD_SET_SHADER_RESOURCE ->
                                  handle_set_shader_resource(mem, start, oob, e)
      [] op \in DrawCommands             -> handle_draw(e)
      [] op = PVGPU_CMD_CLEAR_RENDER_TARGET ->
                                  handle_clear_render_target(mem, start, oob, e)
      [] op = PVGPU_CMD_FENCE            -> handle_fence(mem, start, oob, e)
      [] op = PVGPU_CMD_PRESENT          -> handle_present(mem, start, oob, e)
      [] op = PVGPU_CMD_FLUSH            -> handle_flush(e)
      [] op = PVGPU_CMD_RESIZE_BUFFERS   -> handle_resize_buffers(mem, start, oob, e)
      [] OTHER                           -> handle_unknown(e)

\* the number of u32 a handler reads through the data pointer: the size of
\* the structure it casts the pointer to
struct_words(op) ==
    CASE op = PVGPU_CMD_CREATE_RESOURCE  -> 16
      [] op = PVGPU_CMD_OPEN_RESOURCE    -> 11
      [] op = PVGPU_CMD_MAP_RESOURCE     -> 12
      [] op = PVGPU_CMD_UNMAP_RESOURCE   -> 8
      [] op = PVGPU_CMD_UPDATE_RESOURCE  -> 16
      [] op = PVGPU_CMD_CREATE_SHADER    -> 8
      [] op = PVGPU_CMD_SET_RENDER_TARGET -> 14
      [] op = PVGPU_CMD_SET_VIEWPORT     -> 101
      [] op = PVGPU_CMD_SET_SCISSOR      -> 69
      [] op = PVGPU_CMD_SET_SAMPLER      -> 23
      [] op = PVGPU_CMD_SET_VERTEX_BUFFER -> 54
      [] op = PVGPU_CMD_SET_SHADER_RESOURCE -> 135
      [] op = PVGPU_CMD_DRAW_INDEXED_INSTANCED -> 12
      [] op \in DrawCommands \ {PVGPU_CMD_DRAW_INDEXED_INSTANCED} -> 8
      [] op = PVGPU_CMD_CLEAR_RENDER_TARGET -> 9
      [] op = PVGPU_CMD_FENCE            -> 6
      [] op = PVGPU_CMD_PRESENT          -> 8
      [] op = PVGPU_CMD_RESIZE_BUFFERS   -> 12
      [] OTHER                           -> 4

\* a u64 counter raised by one; the model keeps the counters modulo StatsMod
Bump(n) == (n + 1) % StatsMod

\* the statistics block at the end of process_command; a handler's error
\* has returned before it (the ? of the dispatch), and nothing calls
\* record_error
track_statistics(st, op, ok) ==
    IF ok
    THEN [st EXCEPT !.commands_processed = Bump(@),
                    !.resources_created =
                        IF op = PVGPU_CMD_CREATE_RESOURCE THEN Bump(@) ELSE @,
                    !.resources_destroyed =
                        IF op = PVGPU_CMD_DESTROY_RESOURCE THEN Bump(@) ELSE @,
                    !.draw_calls = IF op \in DrawCommands THEN Bump(@) ELSE @,
                    !.presents = IF op = PVGPU_CMD_PRESENT THEN Bump(@) ELSE @]
    ELSE st

\* process_command after the dispatch: the handler's error or panic leaves
\* at once; otherwise the statistics block runs and the declared size is
\* returned
after_dispatch(h, command_type, command_size) ==
    [ok |-> h.ok, msg |-> h.msg,
     consumed |-> IF h.ok THEN command_size ELSE 0,
     eng |-> [h.eng EXCEPT !.stats = track_statistics(@, command_type, h.ok)],
     parsed |-> TRUE, dispatched |-> TRUE,
     op |-> command_type, size |-> command_size,
     nread |-> struct_words(command_type), abort |-> h.abort]

\* CommandProcessor::process_command on the slice (start, len): the result,
\* the bytes consumed, the engine afterwards, what was parsed, and the
\* number of u32 read through the data pointer
process_command(mem, start, len, hp, oob, nat, e) ==
    IF too_small(len)
    THEN [ok |-> FALSE, msg |-> <<"Command too small">>, consumed |-> 0, eng |-> e,
          parsed |-> FALSE, dispatched |-> FALSE, op |-> 0, size |-> 0,
          nread |-> 0, abort |-> FALSE]
    ELSE LET command_type == Fetch(mem, start, 0, oob)
             command_size == Fetch(mem, start, 1, oob)
         IN IF size_exceeds(command_size, len)
            THEN [ok |-> FALSE, msg |-> <<"Command size exceeds available data">>,
                  consumed |-> 0, eng |-> e, parsed |-> TRUE, dispatched |-> FALSE,
                  op |-> command_type, size |-> command_size, nread |-> 4,
                  abort |-> FALSE]
            ELSE after_dispatch(dispatch(mem, start, hp, oob, nat, command_type, e),
                                command_type, command_size)

(***************************************************************************)
(* Service loop helpers (main.rs).                                         *)
(***************************************************************************)
\* a guard that fires on any change of the fence
fence_advanced_on_change(fence, last_irq) == fence # last_irq

\* a guard that fires on a fence that did not move
fence_advanced_or_equal(fence, last_irq) == fence >= last_irq

\* a read of a slot that leaves the request in it
take_peek(slot) == [value |-> slot, slot |-> slot]

\* Option::take, as take_pending_present and take_pending_resize use it:
\* the value taken and the slot left behind
take(slot) == [value |-> slot, slot |-> None]

\* a guard that never fires
fence_advanced_never(fence, last_irq) == FALSE

\* the test that guards complete_fence and the IRQ
fence_advanced(fence, last_irq) == fence > last_irq

\* the batch cap test at the bottom of the drain loop
batch_full(n) == n > BatchCap

\* the error arm of the drain: the code and datum published, and whether the
\* drain loop breaks
classify_error(msg) ==
    IF starts_with(msg, "SHADER_COMPILE:")
    THEN [code |-> PVGPU_ERROR_SHADER_COMPILE,
          data |-> unwrap_or(ParseU32(Tail(msg)), 0), brk |-> FALSE]
    ELSE IF contains(msg, "out of memory") \/ contains(msg, "OutOfMemory")
    THEN [code |-> PVGPU_ERROR_OUT_OF_MEMORY, data |-> 0, brk |-> TRUE]
    ELSE [code |-> PVGPU_ERROR_INTERNAL, data |-> 0, brk |-> TRUE]

\* a report of the lost device that sets the ERROR bit only
device_lost_status_error_only(st) == st \cup {"ERROR"}

\* the status word after the report of the lost device:
\* set_status_flag(PVGPU_STATUS_DEVICE_LOST), then the flag set by set_error
device_lost_status(st) == st \cup {"DEVICE_LOST", "ERROR"}

\* ControlRegion::set_status_flag: fetch_or of the flag
set_status_flag(st, flag) == st \cup {flag}

\* a clear that leaves the flag set
clear_status_flag_noop(st, flag) == st

\* ControlRegion::clear_status_flag: fetch_and of the complement
clear_status_flag(st, flag) == st \ {flag}

\* the datum published when presentation.resize fails
resize_error_data(width, height) ==
    (width % 65536) + (height % 65536) * 65536

(***************************************************************************)
(* The presentation pipeline.  A native object is named by the number of   *)
(* objects the pipeline had created when it was made; made counts them.    *)
(***************************************************************************)
\* PresentationPipeline::new in headless mode: a shared texture, no swapchain
HeadlessPipeline ==
    [swapchain |-> FALSE, backbuffer_rtv |-> None,
     shared_texture |-> Some(1), shared_handle |-> Some(1), made |-> 1]

\* PresentationPipeline::new in windowed mode: a swapchain and its view
WindowedPipeline ==
    [swapchain |-> TRUE, backbuffer_rtv |-> Some(1),
     shared_texture |-> None, shared_handle |-> None, made |-> 1]

\* PresentationPipeline::new in dual mode: both
DualPipeline ==
    [swapchain |-> TRUE, backbuffer_rtv |-> Some(1),
     shared_texture |-> Some(2), shared_handle |-> Some(2), made |-> 2]

\* the native call of resize that fails, if any
ResizeOutcomes == {"ok", "resize_buffers", "get_buffer", "create_rtv",
                   "create_texture", "create_handle"}

\* a resize that never takes the early return
resize_is_noop_never(dims, width, height) == FALSE

\* the early return of resize: the requested size is the configured one
resize_is_noop(dims, width, height) == <<width, height>> = dims

\* resize(width, height) on pipeline p configured to dims, nat the native
\* outcome: the result, the new configured size, the new pipeline and the
\* number of native calls issued
resize(p, dims, width, height, nat) ==
    IF resize_is_noop(dims, width, height)
    THEN [ok |-> TRUE, dims |-> dims, pipeline |-> p, calls |-> 0]
    ELSE LET released == [p EXCEPT !.backbuffer_rtv = None]
             swapFail == p.swapchain
                         /\ nat \in {"resize_buffers", "get_buffer", "create_rtv"}
             swapCalls == IF ~p.swapchain THEN 0
                          ELSE IF nat = "resize_buffers" THEN 1
                          ELSE IF nat = "get_buffer" THEN 2 ELSE 3
             resized == IF p.swapchain
                        THEN [released EXCEPT !.backbuffer_rtv = Some(p.made + 1),
                                              !.made = p.made + 1]
                        ELSE released
             dropped == [resized EXCEPT !.shared_texture = None,
                                        !.shared_handle = None]
             recreated == [dropped EXCEPT
                              !.shared_texture = Some(resized.made + 1),
                              !.shared_handle = Some(resized.made + 1),
                              !.made = resized.made + 1]
         IN IF swapFail
            THEN [ok |-> FALSE, dims |-> <<width, height>>,
                  pipeline |-> released, calls |-> swapCalls]
            ELSE IF p.shared_texture = None
            THEN [ok |-> TRUE, dims |-> <<width, height>>,
                  pipeline |-> resized, calls |-> swapCalls]
            ELSE IF nat = "create_texture"
            THEN [ok |-> FALSE, dims |-> <<width, height>>,
                  pipeline |-> dropped, calls |-> swapCalls + 1]
            ELSE IF nat = "create_handle"
            THEN [ok |-> FALSE, dims |-> <<width, height>>,
                  pipeline |-> dropped, calls |-> swapCalls + 2]
            ELSE [ok |-> TRUE, dims |-> <<width, height>>,
                  pipeline |-> recreated, calls |-> swapCalls + 2]

\* whether present can fail: only the swapchain's GetBuffer and Present can
present_may_fail(p) == p.swapchain

shmVars == <<ring, producer_ptr, consumer_ptr, host_fence_completed,
             status, error_code, error_data>>
guestVars == <<gpos, nrec, gfence, published, guest_fence_request, descriptor>>
loopVars == <<pc, last_irq_fence, processed, loop_present, device_lost_reported>>
engVars == <<current_fence, pending_present, pending_resize, resources,
             current_rtvs, current_dsv, natives, active_maps, stats>>
histVars == <<handed, fence_stores, last, rd>>
errVars == <<set_err, guest_view>>
chanVars == <<pipe, reader, shutdown_event, shared_memory, hs>>
presVars == <<frame_count, pipeline, resize_log, present_calls>>
vars == <<shmVars, guestVars, loopVars, shutdown, engVars, pres_dims, irq_sent,
          histVars, errVars, chanVars, presVars, heap>>

NoStep == [kind |-> "none", pos |-> 0, len |-> 0, parsed |-> FALSE,
           dispatched |-> FALSE, op |-> 0, size |-> 0, consumed |-> 0,
           log |-> <<>>, brk |-> FALSE, tick |-> 0, nread |-> 0,
           nat |-> "none"]

\* CommandProcessorStats::default()
NoStats == [commands_processed |-> 0, draw_calls |-> 0, presents |-> 0,
            resources_created |-> 0, resources_destroyed |-> 0, errors |-> 0]

NoSetError == [n |-> 0, code |-> 0, data |-> 0, done |-> 3,
               code_by |-> 0, data_by |-> 0]

NoResize == [n |-> 0, w |-> 0, h |-> 0, ok |-> TRUE, calls |-> 0]

NoView == [code |-> None, data |-> None]

NoRead == [called |-> FALSE,
           res |-> [some |-> FALSE, start |-> 0, len |-> 0, pending |-> 0]]

Engine == [current_fence |-> current_fence, pending_present |-> pending_present,
           pending_resize |-> pending_resize, resources |-> resources,
           current_rtvs |-> current_rtvs, current_dsv |-> current_dsv,
           natives |-> natives, active_maps |-> active_maps, stats |-> stats]

\* a heap of HeapSize bytes the guest has not written
ZeroHeap == [i \in 1..HeapSize |-> 0]

Init ==
    /\ ring = [i \in 1..RingWords |-> 0]
    /\ producer_ptr = 0 /\ consumer_ptr = 0 /\ host_fence_completed = 0
    /\ status = {"READY"} /\ error_code = 0 /\ error_data = 0
    /\ gpos = 0 /\ nrec = 0 /\ gfence = 0 /\ published = {}
    /\ guest_fence_request = 0 /\ descriptor = GuestDescriptor
    /\ pc = "top" /\ last_irq_fence = 0 /\ processed = 0
    /\ loop_present = None /\ device_lost_reported = FALSE /\ shutdown = FALSE
    /\ current_fence = 0 /\ pending_present = None /\ pending_resize = None
    /\ resources = <<>> /\ natives = <<>> /\ active_maps = <<>>
    /\ stats = NoStats
    /\ heap = ZeroHeap
    /\ current_rtvs = [i \in 1..8 |-> None] /\ current_dsv = None
    /\ pres_dims = <<1920, 1080>>
    /\ irq_sent = 0
    /\ handed = {} /\ fence_stores = 0 /\ last = NoStep /\ rd = NoRead
    /\ set_err = NoSetError /\ guest_view = NoView
    /\ frame_count = 0 /\ pipeline = DualPipeline /\ resize_log = NoResize
    /\ present_calls = 0
    /\ pipe = <<>> /\ reader = "check" /\ shutdown_event = FALSE
    /\ shared_memory = Some("shmem") /\ hs = [first |-> "Handshake", valid |-> TRUE, sent |-> 1, extra |-> 0]

(***************************************************************************)
(* The guest.                                                              *)
(***************************************************************************)
\* the value of a well-formed FENCE record, 0 for any other record
FenceOf(rec) ==
    IF rec[1] = PVGPU_CMD_FENCE /\ rec[2] = Len(rec) * WordBytes
    THEN rec[5] + rec[6] * U32Mod ELSE 0

\* The guest writes one record at its write position, around the end of the
\* ring when it does not fit before it, and publishes its first pub bytes by
\* a store to producer_ptr.
GuestWriteUpTo(rec, pub, max) ==
    LET n   == Len(rec) * WordBytes
        off == gpos % RingSize
        w0  == off \div WordBytes
    IN /\ nrec < max
       /\ gpos = producer_ptr
       /\ pub > 0 /\ pub <= n
       /\ gpos + n - consumer_ptr <= RingSize
       /\ ring' = [i \in 1..Len(ring) |->
                     LET k == (i - 1 - w0 + Len(ring)) % Len(ring)
                     IN IF k < Len(rec) THEN rec[k + 1] ELSE ring[i]]
       /\ gpos' = gpos + n
       /\ nrec' = nrec + 1
       /\ producer_ptr' = producer_ptr + pub
       /\ IF pub = n
          THEN /\ published' = published \cup ({FenceOf(rec)} \ {0})
               /\ gfence' = 0
          ELSE /\ published' = published
               /\ gfence' = FenceOf(rec)
       /\ guest_fence_request' = Max(guest_fence_request, FenceOf(rec))
       /\ last' = NoStep
       /\ UNCHANGED <<descriptor, consumer_ptr, host_fence_completed, status, error_code,
                      error_data, loopVars, shutdown, engVars, pres_dims,
                      irq_sent, handed, fence_stores, rd,
                   errVars, chanVars, presVars, heap>>

GuestWrite(rec, pub) == GuestWriteUpTo(rec, pub, MaxRecords)

\* The guest publishes the rest of the record it has written.
GuestPublishRest ==
    /\ producer_ptr < gpos
    /\ producer_ptr' = gpos
    /\ published' = published \cup ({gfence} \ {0})
    /\ gfence' = 0
    /\ last' = NoStep
    /\ UNCHANGED <<ring, consumer_ptr, host_fence_completed, status, error_code,
                   error_data, gpos, nrec, guest_fence_request, descriptor,
                   loopVars, shutdown, engVars,
                   pres_dims, irq_sent, handed, fence_stores, rd,
                   errVars, chanVars, presVars, heap>>

(***************************************************************************)
(* Shutdown request: the pipe reader on SHUTDOWN or a read failure, or the *)
(* interrupt handler.                                                      *)
(***************************************************************************)
RequestShutdown ==
    /\ ~shutdown
    /\ pc # "done"
    /\ shutdown' = TRUE
    /\ last' = NoStep
    /\ UNCHANGED <<shmVars, guestVars, loopVars, engVars, pres_dims, irq_sent,
                   handed, fence_stores, rd,
                   errVars, chanVars, presVars, heap>>

(***************************************************************************)
(* BackendService::run_loop.                                               *)
(***************************************************************************)
\* Top of an iteration: the shutdown check, the device-status probe, the
\* window messages, and the locals of the drain.
LoopTopW(windowOutcomes) ==
    /\ pc = "top"
    /\ last' = NoStep
    /\ IF shutdown
       THEN /\ pc' = "exit"
            /\ UNCHANGED <<shmVars, guestVars, last_irq_fence, processed,
                           loop_present, device_lost_reported, shutdown, engVars,
                           pres_dims, irq_sent, handed, fence_stores, rd,
                   errVars, chanVars, presVars, heap>>
       ELSE \E deviceOk \in BOOLEAN, windowOpen \in windowOutcomes :
            /\ IF ~deviceOk /\ ~device_lost_reported
               THEN /\ device_lost_reported' = TRUE
                    /\ status' = device_lost_status(status)
                    /\ error_code' = PVGPU_ERROR_DEVICE_LOST
                    /\ error_data' = 0
               ELSE UNCHANGED <<device_lost_reported, status, error_code, error_data>>
            /\ IF windowOpen
               THEN /\ pc' = "drain"
                    /\ processed' = 0
                    /\ loop_present' = None
               ELSE /\ pc' = "exit"
                    /\ UNCHANGED <<processed, loop_present>>
            /\ UNCHANGED <<ring, producer_ptr, consumer_ptr, host_fence_completed,
                           guestVars, last_irq_fence, shutdown, engVars, pres_dims,
                           irq_sent, handed, fence_stores, rd,
                   errVars, chanVars, presVars, heap>>

\* windowed or dual mode: process_messages may report the window closed
LoopTop == LoopTopW(BOOLEAN)

\* process_messages returns true: no window (headless mode), or a window
\* that stays open
LoopTopHeadless == LoopTopW({TRUE})

\* what a read past the end of the ring mapping may yield
OobWords == {0, 1}

\* the two ring counters of the control region
Counters == [producer_ptr |-> producer_ptr, consumer_ptr |-> consumer_ptr]

advance_consumer_and_producer(ctl, bytes) ==
    [producer_ptr |-> ctl.producer_ptr + bytes,
     consumer_ptr |-> ctl.consumer_ptr + bytes]

\* SharedMemory::advance_consumer: a load of consumer_ptr and a store of it
\* raised by bytes
advance_consumer(ctl, bytes) ==
    [ctl EXCEPT !.consumer_ptr = ctl.consumer_ptr + bytes]

\* what the native device may answer to a creation call: success, the
\* HRESULT 0x8007000E or another failure from CreateTexture2D, CreateBuffer or
\* a shader creation call, and the same two failures from the creation of a
\* view of a texture that was created (the error then carries the system's
\* text for the HRESULT)
NativeOutcomes == {"ok", "oom", "fail", "viewfail", "viewoom"}

\* the body of one pass once process_command has returned p for the slice r
DrainArms(p, r, nat) ==
    LET step == [kind |-> IF p.ok THEN "ok"
                          ELSE IF p.abort THEN "abort" ELSE "err",
                 pos |-> consumer_ptr, len |-> r.len, parsed |-> p.parsed,
                 dispatched |-> p.dispatched, op |-> p.op,
                 size |-> p.size, consumed |-> p.consumed,
                 log |-> <<>>, brk |-> FALSE, tick |-> 1 - last.tick,
                 nread |-> p.nread,
                 nat |-> IF p.dispatched
                            /\ p.op \in {PVGPU_CMD_CREATE_RESOURCE,
                                         PVGPU_CMD_CREATE_SHADER}
                         THEN nat ELSE "none"]
    IN /\ handed' = handed \cup {consumer_ptr}
       /\ current_fence' = p.eng.current_fence
       /\ pending_resize' = p.eng.pending_resize
       /\ resources' = p.eng.resources
       /\ current_rtvs' = p.eng.current_rtvs
       /\ current_dsv' = p.eng.current_dsv
       /\ natives' = p.eng.natives
       /\ active_maps' = p.eng.active_maps
       /\ stats' = p.eng.stats
       /\ IF p.ok
          THEN LET fence == p.eng.current_fence
                   adv   == fence_advanced(fence, last_irq_fence)
                   total == processed + p.consumed
                   ctl   == advance_consumer(Counters, p.consumed)
               IN /\ consumer_ptr' = ctl.consumer_ptr
                  /\ producer_ptr' = ctl.producer_ptr
                  /\ processed' = total
                  /\ IF adv
                     THEN /\ host_fence_completed' = fence
                          /\ last_irq_fence' = fence
                          /\ fence_stores' = fence_stores + 1
                          /\ irq_sent' = irq_sent + 1
                     ELSE UNCHANGED <<host_fence_completed, last_irq_fence,
                                      fence_stores, irq_sent>>
                  /\ pending_present' = take(p.eng.pending_present).slot
                  /\ loop_present' =
                         IF take(p.eng.pending_present).value # None
                         THEN take(p.eng.pending_present).value
                         ELSE loop_present
                  /\ pc' = IF batch_full(total) THEN "post" ELSE "drain"
                  /\ last' = [step EXCEPT
                        !.log = <<"advance_consumer">> \o
                                (IF adv THEN <<"complete_fence", "irq">>
                                 ELSE <<>>),
                        !.brk = batch_full(total)]
                  /\ UNCHANGED <<status, error_code, error_data>>
          ELSE IF p.abort
          THEN /\ pc' = "aborted"
               /\ pending_present' = p.eng.pending_present
               /\ last' = [step EXCEPT !.log = <<"panic">>,
                                        !.brk = TRUE]
               /\ UNCHANGED <<producer_ptr, consumer_ptr,
                              host_fence_completed, last_irq_fence,
                              fence_stores, irq_sent, processed,
                              loop_present, status, error_code,
                              error_data>>
          ELSE LET c == classify_error(p.msg)
               IN /\ error_code' = c.code
                  /\ error_data' = c.data
                  /\ status' = status \cup {"ERROR"}
                  /\ pending_present' = p.eng.pending_present
                  /\ pc' = IF c.brk \/ batch_full(processed)
                           THEN "post" ELSE "drain"
                  /\ last' = [step EXCEPT !.log = <<"set_error">>,
                                           !.brk = c.brk]
                  /\ UNCHANGED <<producer_ptr, consumer_ptr,
                                 host_fence_completed,
                                 last_irq_fence, fence_stores, irq_sent,
                                 processed, loop_present>>
       /\ UNCHANGED <<ring, guestVars, device_lost_reported,
                      shutdown, pres_dims, rd,
        errVars, chanVars, presVars, heap>>

\* One pass of the body of the drain loop: read_pending_commands,
\* process_command, then the Ok arm (advance_consumer, fence and IRQ, pending
\* present) or the Err arm (set_error, break or not), then the batch cap;
\* a panic in a handler ends the thread with nothing published.
DrainStep ==
    /\ pc = "drain"
    /\ LET r == read_pending_commands(consumer_ptr, producer_ptr)
       IN IF ~r.some \/ r.len = 0
          THEN /\ pc' = "post"
               /\ last' = [NoStep EXCEPT !.kind = "empty"]
               /\ UNCHANGED <<shmVars, guestVars, last_irq_fence, processed,
                              loop_present, device_lost_reported, shutdown,
                              engVars, pres_dims, irq_sent, handed, fence_stores, rd,
                   errVars, chanVars, presVars, heap>>
          ELSE \E oob \in OobWords, nat \in NativeOutcomes :
               DrainArms(process_command(ring, r.start, r.len, heap, oob, nat,
                                         Engine), r, nat)

\* After the drain: the pending present, the pending resize, and the choice
\* between looping at once and waiting for the doorbell.
PostDrain ==
    /\ pc = "post"
    /\ \E presentOk \in BOOLEAN, nat \in ResizeOutcomes :
       LET \* the present block: the error it publishes, if any
           bb == IF loop_present # None THEN loop_present[1][1] ELSE 0
           presentDone == presentOk \/ ~present_may_fail(pipeline)
           presentErr ==
               IF loop_present = None THEN None
               ELSE IF get_texture(resources, bb) # None
                    THEN IF presentDone THEN None
                         ELSE Some(<<PVGPU_ERROR_DEVICE_LOST, bb>>)
                    ELSE Some(<<PVGPU_ERROR_RESOURCE_NOT_FOUND, bb>>)
           \* the resize block
           rs == take(pending_resize).value
           rz == IF rs = None
                 THEN [ok |-> TRUE, dims |-> pres_dims, pipeline |-> pipeline,
                       calls |-> 0]
                 ELSE resize(pipeline, pres_dims, rs[1][1], rs[1][2], nat)
           presented == loop_present # None
                        /\ get_texture(resources, bb) # None /\ presentDone
           resizeErr ==
               IF ~rz.ok
               THEN Some(<<PVGPU_ERROR_INTERNAL, resize_error_data(rs[1][1], rs[1][2])>>)
               ELSE None
           err == IF resizeErr # None THEN resizeErr ELSE presentErr
           \* the status word after each call of the two blocks
           st1 == IF presentErr # None THEN set_status_flag(status, "ERROR")
                  ELSE status
           st2 == IF rs # None THEN set_status_flag(st1, "RESIZING") ELSE st1
           st3 == IF resizeErr # None THEN set_status_flag(st2, "ERROR") ELSE st2
           st4 == IF rs # None THEN clear_status_flag(st3, "RESIZING") ELSE st3
           calls ==
               (IF loop_present # None /\ get_texture(resources, bb) # None
                THEN <<"present">> ELSE <<>>)
               \o (IF presentErr # None THEN <<"set_error">> ELSE <<>>)
               \o (IF rs = None THEN <<>>
                   ELSE <<"set_status_flag">>
                        \o <<IF "RESIZING" \in st2 THEN "resize while RESIZING"
                             ELSE "resize">>
                        \o (IF resizeErr # None THEN <<"set_error">> ELSE <<>>)
                        \o <<"clear_status_flag">>)
       IN /\ pending_resize' = take(pending_resize).slot
          /\ pres_dims' = rz.dims
          /\ pipeline' = rz.pipeline
          /\ frame_count' = IF presented THEN frame_count + 1 ELSE frame_count
          /\ present_calls' =
                 IF loop_present # None /\ get_texture(resources, bb) # None
                 THEN present_calls + 1 ELSE present_calls
          /\ IF err # None
             THEN /\ error_code' = err[1][1]
                  /\ error_data' = err[1][2]
             ELSE UNCHANGED <<error_code, error_data>>
          /\ status' = st4
          /\ pc' = IF processed > 0 THEN "top" ELSE "wait"
          /\ last' = [NoStep EXCEPT !.kind = "post", !.log = calls]
          /\ UNCHANGED <<ring, producer_ptr, consumer_ptr, host_fence_completed,
                         guestVars, last_irq_fence, processed, loop_present,
                         device_lost_reported, shutdown, current_fence,
                         pending_present, resources, current_rtvs,
                         current_dsv, irq_sent, handed,
                         fence_stores, rd, errVars, chanVars, resize_log,
                         natives, active_maps, stats, heap>>

\* wait_for_doorbell(5): returns on the doorbell or on the timeout
WaitDoorbell ==
    /\ pc = "wait"
    /\ pc' = "top"
    /\ last' = NoStep
    /\ UNCHANGED <<shmVars, guestVars, last_irq_fence, processed, loop_present,
                   device_lost_reported, shutdown, engVars, pres_dims, irq_sent,
                   handed, fence_stores, rd,
                   errVars, chanVars, presVars, heap>>

\* main after run_loop returns: set_status(PVGPU_STATUS_SHUTDOWN)
Exit ==
    /\ pc = "exit"
    /\ pc' = "done"
    /\ status' = {"SHUTDOWN"}
    /\ last' = NoStep
    /\ UNCHANGED <<ring, producer_ptr, consumer_ptr, host_fence_completed,
                   error_code, error_data, guestVars, last_irq_fence, processed,
                   loop_present, device_lost_reported, shutdown, engVars,
                   pres_dims, irq_sent, handed, fence_stores, rd,
                   errVars, chanVars, presVars, heap>>

GuestStep ==
    \E rec \in GuestRecords : \E pub \in {8, 16, Len(rec) * WordBytes} :
        GuestWrite(rec, pub)

HostStep == LoopTop \/ DrainStep \/ PostDrain \/ WaitDoorbell \/ Exit

Next == GuestStep \/ GuestPublishRest \/ RequestShutdown \/ HostStep

Spec == Init /\ [][Next]_vars

(***************************************************************************)
(* A session whose window stays open, fed whole, well-formed records, with *)
(* no shutdown request; the service thread keeps running.                  *)
(***************************************************************************)
GuestSubmit ==
    \E rec \in WellFormedRecords : GuestWrite(rec, Len(rec) * WordBytes)

ServiceStep == LoopTopHeadless \/ DrainStep \/ PostDrain \/ WaitDoorbell

NextFair == GuestSubmit \/ ServiceStep

FairSpec == Init /\ [][NextFair]_vars /\ WF_vars(ServiceStep)

(***************************************************************************)
(* read_pending_commands on its own, at every pair of counter values of a  *)
(* bounded set.                                                            *)
(***************************************************************************)
\* the first multiple of the ring size above PtrHigh
HighWrap == PtrHigh + RingSize - (PtrHigh % RingSize)

PtrValues == (0..(2 * RingSize + PtrSpan))
             \cup ((HighWrap - PtrSpan)..(HighWrap + PtrSpan))

InitRead ==
    /\ ring = [i \in 1..RingWords |-> 0]
    /\ consumer_ptr \in PtrValues /\ producer_ptr \in PtrValues
    /\ consumer_ptr <= producer_ptr
    /\ host_fence_completed = 0
    /\ status = {"READY"} /\ error_code = 0 /\ error_data = 0
    /\ gpos = 0 /\ nrec = 0 /\ gfence = 0 /\ published = {}
    /\ guest_fence_request = 0 /\ descriptor = GuestDescriptor
    /\ pc = "read" /\ last_irq_fence = 0 /\ processed = 0
    /\ loop_present = None /\ device_lost_reported = FALSE /\ shutdown = FALSE
    /\ current_fence = 0 /\ pending_present = None /\ pending_resize = None
    /\ resources = <<>> /\ natives = <<>> /\ active_maps = <<>>
    /\ stats = NoStats
    /\ heap = ZeroHeap
    /\ current_rtvs = [i \in 1..8 |-> None] /\ current_dsv = None
    /\ pres_dims = <<1920, 1080>>
    /\ irq_sent = 0
    /\ handed = {} /\ fence_stores = 0 /\ last = NoStep /\ rd = NoRead
    /\ set_err = NoSetError /\ guest_view = NoView
    /\ frame_count = 0 /\ pipeline = DualPipeline /\ resize_log = NoResize
    /\ present_calls = 0
    /\ pipe = <<>> /\ reader = "check" /\ shutdown_event = FALSE
    /\ shared_memory = Some("shmem") /\ hs = [first |-> "Handshake", valid |-> TRUE, sent |-> 1, extra |-> 0]

ReadStep ==
    /\ pc = "read"
    /\ ~rd.called
    /\ rd' = [called |-> TRUE,
              res |-> read_pending_commands(consumer_ptr, producer_ptr)]
    /\ UNCHANGED <<shmVars, guestVars, loopVars, shutdown, engVars, pres_dims,
                   irq_sent, handed, fence_stores, last, errVars, chanVars, presVars, heap>>

NextRead == ReadStep

SpecRead == InitRead /\ [][NextRead]_vars

(***************************************************************************)
(* Well-formedness of the model's own assumptions.                         *)
(***************************************************************************)
\* the counters stay on word boundaries, so a record is read at a word
AlignedInv ==
    /\ consumer_ptr % WordBytes = 0
    /\ producer_ptr % WordBytes = 0

\* a drain step is a pass of the drain loop that handed a slice to
\* process_command
IsDrainStep(st) == st.kind \in {"ok", "err", "abort"}

\* every opcode the loop dispatches is one whose handler is modelled
ModelledInv ==
    (IsDrainStep(last) /\ last.dispatched) =>
        (last.op \in ModelledOpcodes \/ last.op \notin DispatchedOpcodes)

(***************************************************************************)
(* Claims.                                                                 *)
(***************************************************************************)
\* C1: consumer_ptr never exceeds producer_ptr and never decreases, and it
\* changes only in a drain step whose process_command succeeded, by the byte
\* count that call returned, on the slice read_pending_commands returned at
\* the consumer position; that count never exceeds the slice.
C1_ConsumerBehindProducer ==
    /\ consumer_ptr <= producer_ptr
    /\ [][ /\ consumer_ptr' <= producer_ptr'
           /\ consumer_ptr' >= consumer_ptr
           /\ consumer_ptr' # consumer_ptr =>
                 /\ last'.kind = "ok"
                 /\ last'.pos = consumer_ptr
                 /\ last'.len = read_pending_commands(consumer_ptr, producer_ptr).len
                 /\ last'.consumed <= last'.len
                 /\ consumer_ptr' = consumer_ptr + last'.consumed ]_vars

\* a record was consumed while a later record is still pending
C1_Witness ==
    /\ last.kind = "ok" /\ last.consumed > 0
    /\ 0 < consumer_ptr /\ consumer_ptr < producer_ptr

\* C2: for every wholly published FENCE record of value f, whatever records
\* were queued before it, host_fence_completed eventually reaches f or more,
\* provided the service loop keeps running and no shutdown is requested.
C2_FenceEventuallyCompleted ==
    \A f \in {1, 2} : (f \in published) ~> (host_fence_completed >= f)

\* C3: host_fence_completed never decreases, also when a later FENCE record
\* carries a smaller value than an earlier one.
C3_FenceMonotone ==
    [][host_fence_completed' >= host_fence_completed]_vars

\* a FENCE of a smaller value was executed after a larger one was completed
C3_Witness ==
    /\ last.kind = "ok" /\ last.op = PVGPU_CMD_FENCE
    /\ 0 < current_fence /\ current_fence < host_fence_completed

\* C4: after a successful command an IRQ is sent exactly when the engine's
\* current fence exceeds last_irq_fence; the store of host_fence_completed
\* comes before the IRQ and raises the value; no IRQ is sent otherwise; the
\* number of IRQs equals the number of stores to host_fence_completed.
C4_IrqCoalescing ==
    /\ irq_sent = fence_stores
    /\ [][ /\ irq_sent' = fence_stores'
           /\ irq_sent' \in {irq_sent, irq_sent + 1}
           /\ (irq_sent' # irq_sent) <=>
                 (last'.kind = "ok" /\ last' # last /\ current_fence' > last_irq_fence)
           /\ irq_sent' # irq_sent =>
                 /\ host_fence_completed' = current_fence'
                 /\ host_fence_completed' > host_fence_completed
                 /\ last_irq_fence' = current_fence'
                 /\ \E i, j \in DOMAIN last'.log :
                       /\ i < j
                       /\ last'.log[i] = "complete_fence"
                       /\ last'.log[j] = "irq"
           /\ irq_sent' = irq_sent =>
                 host_fence_completed' = host_fence_completed ]_vars

\* an IRQ was sent and then a FENCE of a smaller value was executed that
\* sent none
C4_Witness ==
    /\ irq_sent = 1
    /\ last.kind = "ok" /\ last.op = PVGPU_CMD_FENCE
    /\ last.log = <<"advance_consumer">>
    /\ current_fence < last_irq_fence

\* C5: records are executed in ring byte order, each exactly once: no
\* position of the ring is handed to process_command a second time.
C5_ExactlyOnce ==
    [][ (IsDrainStep(last') /\ last' # last) => last'.pos \notin handed ]_vars

\* C6: read_pending_commands returns nothing when producer_ptr equals
\* consumer_ptr; otherwise it returns the slice that starts at consumer_ptr
\* mod the ring size, of length min(pending, ring size - start), so the slice
\* never reaches past the end of the ring nor past the pending bytes.
C6_ReadPendingSlice ==
    rd.called =>
        LET r == rd.res
            pending == producer_ptr - consumer_ptr
        IN /\ r.some <=> pending # 0
           /\ r.some =>
                 /\ r.start = consumer_ptr % RingSize
                 /\ r.len > 0
                 /\ r.start + r.len <= RingSize
                 /\ r.len <= pending
                 /\ r.len = pending \/ r.start + r.len = RingSize
                 /\ r.pending = pending

\* a read whose pending bytes run past the end of the ring
C6_Witness ==
    /\ rd.called /\ rd.res.some
    /\ rd.res.len < producer_ptr - consumer_ptr
    /\ rd.res.start + rd.res.len = RingSize
    /\ consumer_ptr >= PtrHigh

\* C7: every pass of the drain terminates, whatever the ring holds: the
\* loop leaves the drain when the ring is empty or the batch cap is reached.
C7_DrainTerminates ==
    (pc = "drain") ~> (pc # "drain")

\* C8: a whole record with an opcode the dispatch does not know is only a
\* warning: process_command returns its size_total, the resource table, the
\* fence state and the pending slots are unchanged, no error is published,
\* the consumer advances by size_total and the drain goes on.
C8_UnknownOpcodeSkipped ==
    [][ ( /\ IsDrainStep(last') /\ last' # last
          /\ last'.parsed
          /\ last'.op \notin DispatchedOpcodes
          /\ last'.size >= PVGPU_CMD_HEADER_SIZE
          /\ last'.size <= last'.len )
        => ( /\ last'.kind = "ok"
             /\ last'.consumed = last'.size
             /\ consumer_ptr' = consumer_ptr + last'.size
             /\ UNCHANGED <<resources, current_fence, pending_present,
                            pending_resize, loop_present>>
             /\ UNCHANGED <<error_code, error_data, status>>
             /\ pc' = "drain" \/ batch_full(processed') ) ]_vars

\* a WAIT_FENCE record was skipped with a resource in the table
C8_Witness ==
    /\ last.kind = "ok" /\ last.op = PVGPU_CMD_WAIT_FENCE
    /\ last.consumed = 16
    /\ resources # <<>>
    /\ pc = "drain"

\* C9: a record whose size_total is below the header size is a fatal
\* framing error: it is never dispatched and the consumer is never advanced
\* by it.
C9_ShortSizeFatal ==
    [][ ( /\ IsDrainStep(last') /\ last' # last
          /\ last'.parsed
          /\ last'.size < PVGPU_CMD_HEADER_SIZE )
        => ( /\ ~last'.dispatched
             /\ last'.kind = "err"
             /\ consumer_ptr' = consumer_ptr ) ]_vars

\* C10: a record whose size_total exceeds the bytes pending is waited for:
\* it is not executed, the consumer is unchanged, and no error code is
\* written to the control region.
C10_IncompleteRecordWaits ==
    [][ ( /\ IsDrainStep(last') /\ last' # last
          /\ last'.parsed
          /\ last'.size > producer_ptr - consumer_ptr )
        => ( /\ ~last'.dispatched
             /\ consumer_ptr' = consumer_ptr
             /\ UNCHANGED <<error_code, error_data, status>> ) ]_vars

\* the record handed to process_command in the drain step st extends past
\* the end of the ring: by its declared size, or already by its header
CrossesWrap(st) ==
    LET off == st.pos % RingSize
    IN IF st.parsed THEN off + st.size > RingSize
       ELSE off + PVGPU_CMD_HEADER_SIZE > RingSize

\* C11: a record whose size_total extends past the end of the ring from its
\* start offset is rejected: process_command fails, no handler runs, the
\* consumer does not move, and nothing is read past the end of the ring.
C11_WrapRecordRejected ==
    [][ (IsDrainStep(last') /\ last' # last /\ CrossesWrap(last'))
        => ( /\ last'.kind = "err"
             /\ ~last'.dispatched
             /\ consumer_ptr' = consumer_ptr
             /\ UNCHANGED <<resources, current_fence, pending_resize>>
             /\ (last'.pos % RingSize) + last'.nread * WordBytes <= RingSize ) ]_vars

\* a wholly published record that runs around the end of the ring was rejected
C11_Witness ==
    /\ last.kind = "err" /\ last.parsed
    /\ (last.pos % RingSize) + last.size > RingSize
    /\ producer_ptr - consumer_ptr >= last.size
    /\ last.nread = 4

(***************************************************************************)
(* The engine on single commands: the guest submits at most one record     *)
(* that sets a resource up, then one record of a wider set, each whole;    *)
(* the window of the service stays open.                                   *)
(***************************************************************************)
\* a texture with a render-target view, under id 1
SetupRecords == { CmdCreateResource(1, 2, 1, 1, D3D11_BIND_RENDER_TARGET, 0, 0) }

\* CREATE_RESOURCE records whose initial data lies in the heap, or runs past
\* its end (offset 8, size 16)
HeapRecords ==
    { CmdCreateResource(3, 2, 1, 1, D3D11_BIND_RENDER_TARGET, 4, 8),
      CmdCreateResource(3, 2, 1, 1, D3D11_BIND_RENDER_TARGET, 8, 16),
      CmdCreateResource(3, 4, 8, 0, 0, 8, 16),
      CmdCreateResource(3, 5, 0, 0, 0, 8, 16) }

\* CREATE_RESOURCE records with invalid dimensions: a texture of width 0 is
\* in WellFormedRecords; here a texture of height 0, textures above the
\* maximum, a buffer of size 0 and a buffer above the maximum
InvalidRecords ==
    { CmdCreateResource(3, 2, 1, 0, 0, 0, 0),
      CmdCreateResource(3, 2, MaxTextureDim + 1, 1, 0, 0, 0),
      CmdCreateResource(3, 2, 1, MaxTextureDim + 1, 0, 0, 0),
      CmdCreateResource(3, 4, 0, 0, 0, 0, 0),
      CmdCreateResource(3, 4, MaxBufferSize + 1, 0, 0, 0, 0) }

\* CREATE_SHADER records: no bytecode, bytecode in the heap, bytecode that
\* runs past the end of the heap
ShaderRecords ==
    { CmdCreateShader(4, 0, 0, 0), CmdCreateShader(4, 0, 8, 4),
      CmdCreateShader(4, 1, 16, 8) }

\* SET_RENDER_TARGET and CLEAR_RENDER_TARGET records: render target 1, a
\* render target of 0, depth-stencil view 2, and clears of ids 1 and 0
BindRecords ==
    { CmdSetRenderTarget(1, 0, <<1>>), CmdSetRenderTarget(1, 0, <<0>>),
      CmdSetRenderTarget(0, 2, <<>>),
      CmdClearRenderTarget(1), CmdClearRenderTarget(0) }

EngineRecords ==
    WellFormedRecords \cup HeapRecords \cup InvalidRecords \cup ShaderRecords
        \cup BindRecords

\* the only record written so far, if any, is a setup record
OnlySetupWritten ==
    \/ nrec = 0
    \/ /\ nrec = 1
       /\ \E rec \in SetupRecords : SubSeq(ring, 1, Len(rec)) = rec

GuestSetup ==
    /\ nrec = 0
    /\ \E rec \in SetupRecords : GuestWrite(rec, Len(rec) * WordBytes)

GuestCommand ==
    /\ OnlySetupWritten
    /\ \E rec \in EngineRecords : GuestWrite(rec, Len(rec) * WordBytes)

NextCmd == GuestSetup \/ GuestCommand \/ ServiceStep

SpecCmd == Init /\ [][NextCmd]_vars

\* the heap_offset and data_size fields of the CREATE_RESOURCE record handed
\* to process_command in the drain step st
HeapEnd(st) ==
    Fetch(ring, st.pos % RingSize, 14, 0) + Fetch(ring, st.pos % RingSize, 15, 0)

\* C12: a command whose heap_offset + size exceeds the heap length fails
\* with an error before the resource table changes (stated for
\* CREATE_RESOURCE, the command of the five that the model executes).
C12_HeapBoundsChecked ==
    [][ ( /\ IsDrainStep(last') /\ last' # last
          /\ last'.dispatched
          /\ last'.op = PVGPU_CMD_CREATE_RESOURCE
          /\ HeapEnd(last') > HeapSize )
        => ( /\ last'.kind = "err"
             /\ resources' = resources ) ]_vars

\* the drain step st executed a CREATE_RESOURCE record of a shader type
IsShaderCreate(st) ==
    /\ IsDrainStep(st) /\ st.dispatched
    /\ st.op = PVGPU_CMD_CREATE_RESOURCE
    /\ Fetch(ring, st.pos % RingSize, 4, 0) \in 5..10

\* C13: a shader-build failure for resource id N is recoverable: the host
\* publishes SHADER_COMPILE with error_data = N and the ERROR bit, the drain
\* goes on, and consumer_ptr moves past the failing record.
C13_ShaderFailureRecoverable ==
    [][ (IsShaderCreate(last') /\ last' # last /\ last'.kind = "err")
        => ( /\ error_code' = PVGPU_ERROR_SHADER_COMPILE
             /\ error_data' = Fetch(ring, last'.pos % RingSize, 2, 0)
             /\ "ERROR" \in status'
             /\ pc' = "drain"
             /\ consumer_ptr' = consumer_ptr + last'.size ) ]_vars

\* the drain step st executed a CREATE_RESOURCE record for a texture or a
\* buffer whose dimensions are invalid
IsInvalidCreate(st) ==
    LET off    == st.pos % RingSize
        type   == Fetch(ring, off, 4, 0)
        width  == Fetch(ring, off, 6, 0)
        height == Fetch(ring, off, 7, 0)
    IN /\ IsDrainStep(st) /\ st.dispatched
       /\ st.op = PVGPU_CMD_CREATE_RESOURCE
       /\ \/ /\ type = 2
             /\ \/ width = 0 \/ height = 0
                \/ width > MaxTextureDim \/ height > MaxTextureDim
          \/ /\ type = 4
             /\ width = 0 \/ width > MaxBufferSize

\* C14: CREATE_RESOURCE with invalid texture or buffer dimensions inserts
\* nothing in the resource table, is reported as INVALID_PARAMETER, and
\* processing continues with the next record.
C14_InvalidDimensionsReported ==
    [][ (IsInvalidCreate(last') /\ last' # last)
        => ( /\ resources' = resources
             /\ error_code' = PVGPU_ERROR_INVALID_PARAMETER
             /\ "ERROR" \in status'
             /\ pc' = "drain"
             /\ consumer_ptr' = consumer_ptr + last'.size ) ]_vars

\* the drain step st executed a record that creates a shader with no
\* bytecode: CREATE_RESOURCE of a shader type with data_size 0, or
\* CREATE_SHADER with bytecode_size 0
IsEmptyShaderCreate(st) ==
    LET off == st.pos % RingSize
    IN /\ IsDrainStep(st) /\ st.dispatched
       /\ \/ IsShaderCreate(st) /\ Fetch(ring, off, 15, 0) = 0
          \/ st.op = PVGPU_CMD_CREATE_SHADER /\ Fetch(ring, off, 6, 0) = 0

\* the id of the shader the record of the drain step st creates
ShaderIdOf(st) ==
    LET off == st.pos % RingSize
    IN IF st.op = PVGPU_CMD_CREATE_SHADER THEN Fetch(ring, off, 4, 0)
       ELSE Fetch(ring, off, 2, 0)

\* C15: creating a shader with empty bytecode yields a ShaderCompile error
\* carrying the shader's id and inserts nothing in the resource table, through
\* CREATE_RESOURCE and through CREATE_SHADER alike.
C15_EmptyShaderRejected ==
    [][ (IsEmptyShaderCreate(last') /\ last' # last)
        => ( /\ last'.kind = "err"
             /\ error_code' = PVGPU_ERROR_SHADER_COMPILE
             /\ error_data' = ShaderIdOf(last')
             /\ resources' = resources ) ]_vars

\* the drain step st executed a CREATE_RESOURCE record for a texture or a
\* buffer of valid dimensions, and a native creation call it made reported
\* out-of-memory: CreateTexture2D or CreateBuffer, or the creation of a
\* view of the texture
NativeOutOfMemory(st) ==
    LET off    == st.pos % RingSize
        type   == Fetch(ring, off, 4, 0)
        width  == Fetch(ring, off, 6, 0)
        height == Fetch(ring, off, 7, 0)
        bind   == Fetch(ring, off, 12, 0)
    IN /\ IsDrainStep(st) /\ st.dispatched
       /\ st.op = PVGPU_CMD_CREATE_RESOURCE
       /\ \/ /\ type = 2
             /\ width \in 1..MaxTextureDim /\ height \in 1..MaxTextureDim
             /\ \/ st.nat = "oom"
                \/ /\ st.nat = "viewoom"
                   /\ \/ HasBit(bind, D3D11_BIND_SHADER_RESOURCE)
                      \/ HasBit(bind, D3D11_BIND_RENDER_TARGET)
          \/ /\ type = 4
             /\ width \in 1..MaxBufferSize
             /\ st.nat = "oom"

\* C16: when a native creation call reports out-of-memory, the host
\* publishes error_code = OUT_OF_MEMORY with the ERROR bit, and the drain
\* pass stops without advancing consumer_ptr past the failing record, which
\* is therefore read again by a later iteration (stated for the creation
\* calls of textures, their views and buffers).
C16_OutOfMemoryPublished ==
    [][ (NativeOutOfMemory(last') /\ last' # last)
        => ( /\ error_code' = PVGPU_ERROR_OUT_OF_MEMORY
             /\ "ERROR" \in status'
             /\ consumer_ptr' = consumer_ptr
             /\ pc' = "post" ) ]_vars

\* a native out-of-memory answer to CreateTexture2D or CreateBuffer has been
\* published as OUT_OF_MEMORY and the drain has stopped at the record
C16_Witness ==
    /\ NativeOutOfMemory(last) /\ last.nat = "oom"
    /\ error_code = PVGPU_ERROR_OUT_OF_MEMORY
    /\ consumer_ptr = last.pos /\ pc = "post"

\* the drain step st executed a SET_RENDER_TARGET or CLEAR_RENDER_TARGET
\* record that refers to an id other than 0 which is missing from the
\* resource table slab or names a resource of another variant
MissingReference(st, slab) ==
    LET off      == st.pos % RingSize
        num_rtvs == Fetch(ring, off, 4, 0)
        dsv_id   == Fetch(ring, off, 5, 0)
    IN /\ IsDrainStep(st) /\ st.dispatched
       /\ \/ /\ st.op = PVGPU_CMD_SET_RENDER_TARGET
             /\ num_rtvs <= 8
             /\ \/ \E i \in 1..num_rtvs :
                      ~rtv_known(slab, Fetch(ring, off, 5 + i, 0))
                \/ /\ dsv_id # 0
                   /\ \/ dsv_id \notin DOMAIN slab
                      \/ slab[dsv_id].kind # "DepthStencilView"
          \/ /\ st.op = PVGPU_CMD_CLEAR_RENDER_TARGET
             /\ Fetch(ring, off, 4, 0) # 0
             /\ ~rtv_known(slab, Fetch(ring, off, 4, 0))

\* C17: a reference to a missing id, or to an id of the wrong variant, in
\* SET_RENDER_TARGET or CLEAR_RENDER_TARGET is a warning and not an error:
\* process_command succeeds, the record is consumed, no error code is
\* published, and the bound state is left as it was.
C17_MissingIdIsWarning ==
    [][ (MissingReference(last', resources) /\ last' # last)
        => ( /\ last'.kind = "ok"
             /\ consumer_ptr' = consumer_ptr + last'.size
             /\ error_code' = error_code /\ status' = status
             /\ current_rtvs' = current_rtvs
             /\ current_dsv' = current_dsv ) ]_vars

\* CLEAR_RENDER_TARGET of a missing id was consumed without an error
C17_Witness ==
    /\ MissingReference(last, resources)
    /\ last.op = PVGPU_CMD_CLEAR_RENDER_TARGET
    /\ last.kind = "ok" /\ error_code = 0
    /\ consumer_ptr = last.pos + last.size

(***************************************************************************)
(* The error fields of the control region (protocol.rs).  The actions of   *)
(* the service loop above take a call of set_error as one step; here the   *)
(* call is followed through its three atomic operations, in program order  *)
(* on the one thread that makes such calls, while the guest reads          *)
(* error_code and error_data, each once, at any moment and in any order.   *)
(***************************************************************************)
\* the (code, data) arguments of the set_error calls of run_loop
ErrorCalls ==
    { <<PVGPU_ERROR_SHADER_COMPILE, 1>>, <<PVGPU_ERROR_SHADER_COMPILE, 2>>,
      <<PVGPU_ERROR_OUT_OF_MEMORY, 0>>, <<PVGPU_ERROR_INTERNAL, 0>>,
      <<PVGPU_ERROR_DEVICE_LOST, 0>>, <<PVGPU_ERROR_RESOURCE_NOT_FOUND, 1>> }

\* set_error, first operation: error_code.store(code)
set_error_code(code, data) ==
    /\ set_err.done = 3
    /\ set_err.n < MaxErrorCalls
    /\ error_code' = code
    /\ set_err' = [set_err EXCEPT !.n = @ + 1, !.code = code, !.data = data,
                                  !.done = 1, !.code_by = set_err.n + 1]
    /\ UNCHANGED <<ring, producer_ptr, consumer_ptr, host_fence_completed,
                   status, error_data, guestVars, loopVars, shutdown, engVars,
                   pres_dims, irq_sent, histVars, guest_view,
                   chanVars, presVars, heap>>

\* set_error, second operation: error_data.store(data)
set_error_data ==
    /\ set_err.done = 1
    /\ error_data' = set_err.data
    /\ set_err' = [set_err EXCEPT !.done = 2, !.data_by = set_err.n]
    /\ UNCHANGED <<ring, producer_ptr, consumer_ptr, host_fence_completed,
                   status, error_code, guestVars, loopVars, shutdown, engVars,
                   pres_dims, irq_sent, histVars, guest_view,
                   chanVars, presVars, heap>>

\* set_error, third operation: set_status_flag(PVGPU_STATUS_ERROR)
set_error_flag ==
    /\ set_err.done = 2
    /\ status' = status \cup {"ERROR"}
    /\ set_err' = [set_err EXCEPT !.done = 3]
    /\ UNCHANGED <<ring, producer_ptr, consumer_ptr, host_fence_completed,
                   error_code, error_data, guestVars, loopVars, shutdown,
                   engVars, pres_dims, irq_sent, histVars, guest_view,
                   chanVars, presVars, heap>>

\* the guest loads error_code
GuestReadErrorCode ==
    /\ guest_view.code = None
    /\ guest_view' = [guest_view EXCEPT
                         !.code = Some(<<error_code, set_err.code_by>>)]
    /\ UNCHANGED <<shmVars, guestVars, loopVars, shutdown, engVars, pres_dims,
                   irq_sent, histVars, set_err, chanVars, presVars, heap>>

\* the guest loads error_data
GuestReadErrorData ==
    /\ guest_view.data = None
    /\ guest_view' = [guest_view EXCEPT
                         !.data = Some(<<error_data, set_err.data_by>>)]
    /\ UNCHANGED <<shmVars, guestVars, loopVars, shutdown, engVars, pres_dims,
                   irq_sent, histVars, set_err, chanVars, presVars, heap>>

NextErr ==
    \/ \E call \in ErrorCalls : set_error_code(call[1], call[2])
    \/ set_error_data
    \/ set_error_flag
    \/ GuestReadErrorCode
    \/ GuestReadErrorData

SpecErr == Init /\ [][NextErr]_vars

\* C18: in every state the guest can observe, a nonzero error_code implies
\* that the ERROR bit of the status word is set.
C18_ErrorCodeImpliesErrorBit ==
    error_code # 0 => "ERROR" \in status

\* C19: the guest that reads error_code and error_data while the host
\* publishes errors obtains two values written by the same set_error call.
C19_ErrorPairAtomic ==
    (guest_view.code # None /\ guest_view.data # None)
        => guest_view.code[1][2] = guest_view.data[1][2]

\* C20: the iteration in which the device-status probe first reports the
\* device lost sets the DEVICE_LOST and ERROR status bits with error_code =
\* DEVICE_LOST and goes on to the drain instead of leaving the loop; the
\* loss is reported once, and the DEVICE_LOST bit stays set as long as the
\* loop runs.
C20_DeviceLostReported ==
    [][ /\ (~device_lost_reported /\ device_lost_reported')
            => ( /\ pc = "top" /\ pc' = "drain"
                 /\ {"DEVICE_LOST", "ERROR"} \subseteq status'
                 /\ error_code' = PVGPU_ERROR_DEVICE_LOST
                 /\ error_data' = 0 )
        /\ device_lost_reported => device_lost_reported'
        /\ ("DEVICE_LOST" \in status /\ pc' # "done")
            => "DEVICE_LOST" \in status' ]_vars

\* the device was reported lost, a later error has replaced the error code,
\* and the loop is at the top of a further iteration with the DEVICE_LOST
\* bit still set
C20_Witness ==
    /\ device_lost_reported /\ "DEVICE_LOST" \in status
    /\ error_code \notin {0, PVGPU_ERROR_DEVICE_LOST}
    /\ pc = "top"

\* C21: once the shutdown flag is set the loop observes it at each drain
\* step, so it processes at most the command in progress: a drain pass that
\* handed a command to process_command with the flag set is not followed by
\* another such pass.
C21_ShutdownObservedInDrain ==
    [][ (shutdown /\ IsDrainStep(last))
        => ~(IsDrainStep(last') /\ last' # last) ]_vars

\* the flag was set during a drain that has a record pending, and the loop
\* has processed one command since
C21_Witness ==
    /\ shutdown /\ IsDrainStep(last)
    /\ pc = "drain" /\ consumer_ptr < producer_ptr

(***************************************************************************)
(* The control channel (main.rs, ipc.rs): main from perform_handshake to   *)
(* the join of the pipe reader thread, the pipe reader thread, and the     *)
(* service loop on an empty ring.  The device writes messages to the pipe; *)
(* "Unknown" is a message of a type read_message does not know and         *)
(* "Broken" a failure of ReadFile, both of which read_message returns as   *)
(* an error.  ReadFile is synchronous: a read of the empty pipe blocks.    *)
(***************************************************************************)
PipeItems == {"Handshake", "Doorbell", "Shutdown", "Unknown", "Broken"}

\* perform_handshake's match with every message taken for a handshake
is_handshake_any(msg) == msg \notin {"Unknown", "Broken"}

\* perform_handshake: read_message succeeded and the message is a Handshake
is_handshake(msg) == msg = "Handshake"

\* the pipe reader on the result of read_message: whether it sets the
\* shutdown flag and signals the event, and whether it leaves its loop
reader_on_message(msg, flag) ==
    CASE msg = "Doorbell"  -> [set |-> FALSE, leave |-> FALSE]
      [] msg = "Shutdown"  -> [set |-> TRUE, leave |-> TRUE]
      [] msg = "Handshake" -> [set |-> FALSE, leave |-> FALSE]
      [] OTHER             -> [set |-> ~flag, leave |-> TRUE]

InitChan ==
    /\ ring = [i \in 1..RingWords |-> 0]
    /\ producer_ptr = 0 /\ consumer_ptr = 0 /\ host_fence_completed = 0
    /\ status = {} /\ error_code = 0 /\ error_data = 0
    /\ gpos = 0 /\ nrec = 0 /\ gfence = 0 /\ published = {}
    /\ guest_fence_request = 0 /\ descriptor = GuestDescriptor
    /\ pc = "handshake" /\ last_irq_fence = 0 /\ processed = 0
    /\ loop_present = None /\ device_lost_reported = FALSE /\ shutdown = FALSE
    /\ current_fence = 0 /\ pending_present = None /\ pending_resize = None
    /\ resources = <<>> /\ natives = <<>> /\ active_maps = <<>>
    /\ stats = NoStats
    /\ heap = ZeroHeap
    /\ current_rtvs = [i \in 1..8 |-> None] /\ current_dsv = None
    /\ pres_dims = <<1920, 1080>>
    /\ irq_sent = 0
    /\ handed = {} /\ fence_stores = 0 /\ last = NoStep /\ rd = NoRead
    /\ set_err = NoSetError /\ guest_view = NoView
    /\ frame_count = 0 /\ pipeline = DualPipeline /\ resize_log = NoResize
    /\ present_calls = 0
    /\ pipe = <<>> /\ reader = "idle" /\ shutdown_event = FALSE
    /\ shared_memory = None /\ hs = [first |-> "none", valid |-> FALSE, sent |-> 0, extra |-> 0]

\* the device writes a message to the pipe, or the pipe breaks
DeviceSend ==
    /\ hs.sent < MaxMessages
    /\ pc \notin {"failed", "exited"}
    /\ \E msg \in PipeItems : pipe' = Append(pipe, msg)
    /\ hs' = [hs EXCEPT !.sent = @ + 1]
    /\ UNCHANGED <<shmVars, guestVars, loopVars, shutdown, engVars, pres_dims,
                   irq_sent, histVars, errVars, reader, shutdown_event,
                   shared_memory, presVars, heap>>

\* main from perform_handshake to set_status(PVGPU_STATUS_READY): the first
\* message is read; on a Handshake the shared memory is opened and
\* validated and the acknowledgement sent; then init_renderer and
\* start_pipe_reader.  Any failure makes main return the error.
Startup ==
    /\ pc = "handshake"
    /\ pipe # <<>>
    /\ pipe' = Tail(pipe)
    /\ \E openOk \in BOOLEAN, validOk \in BOOLEAN, ackOk \in BOOLEAN,
          rendererOk \in BOOLEAN :
          LET msg    == Head(pipe)
              mapped == is_handshake(msg) /\ openOk /\ validOk
          IN /\ hs' = [hs EXCEPT !.first = msg, !.valid = openOk /\ validOk]
             /\ shared_memory' = IF mapped THEN Some("shmem") ELSE shared_memory
             /\ IF mapped /\ ackOk /\ rendererOk
                THEN /\ reader' = "check"
                     /\ status' = {"READY"}
                     /\ pc' = "top"
                ELSE /\ pc' = "failed"
                     /\ UNCHANGED <<reader, status>>
    /\ UNCHANGED <<ring, producer_ptr, consumer_ptr, host_fence_completed,
                   error_code, error_data, guestVars, last_irq_fence, processed,
                   loop_present, device_lost_reported, shutdown, engVars,
                   pres_dims, irq_sent, histVars, errVars, shutdown_event,
                   presVars, heap>>

\* the pipe reader thread at the top of its loop
ReaderCheck ==
    /\ reader = "check"
    /\ reader' = IF shutdown \/ shutdown_event THEN "done" ELSE "read"
    /\ UNCHANGED <<shmVars, guestVars, loopVars, shutdown, engVars, pres_dims,
                   irq_sent, histVars, errVars, pipe, shutdown_event,
                   shared_memory, hs, presVars, heap>>

\* the pipe reader thread in read_message, once ReadFile returns
ReaderRead ==
    /\ reader = "read"
    /\ pipe # <<>>
    /\ LET r == reader_on_message(Head(pipe), shutdown)
       IN /\ pipe' = Tail(pipe)
          /\ shutdown' = (shutdown \/ r.set)
          /\ shutdown_event' = (shutdown_event \/ r.set)
          /\ reader' = IF r.leave THEN "done" ELSE "check"
    /\ hs' = IF Head(pipe) = "Handshake" THEN [hs EXCEPT !.extra = @ + 1] ELSE hs
    /\ UNCHANGED <<shmVars, guestVars, loopVars, engVars, pres_dims, irq_sent,
                   histVars, errVars, shared_memory, presVars, heap>>

\* main after set_status(PVGPU_STATUS_SHUTDOWN): handle.join() returns when
\* the pipe reader thread has ended, and the process exits
Join ==
    /\ pc = "done"
    /\ reader = "done"
    /\ pc' = "exited"
    /\ UNCHANGED <<shmVars, guestVars, last_irq_fence, processed, loop_present,
                   device_lost_reported, shutdown, engVars, pres_dims, irq_sent,
                   histVars, errVars, chanVars, presVars, heap>>

MainStep ==
    Startup \/ LoopTop \/ DrainStep \/ PostDrain \/ WaitDoorbell \/ Exit \/ Join

ReaderStep == ReaderCheck \/ ReaderRead

NextChan == DeviceSend \/ RequestShutdown \/ MainStep \/ ReaderStep

\* both threads of the service are scheduled; the device need not send
SpecChan ==
    InitChan /\ [][NextChan]_vars /\ WF_vars(MainStep) /\ WF_vars(ReaderStep)

\* C22: after the service loop has exited, for whatever reason, the pipe
\* reader thread terminates, the join in main returns and the process
\* exits, even if the device sends no further message.
C22_ReaderTerminates == (pc = "done") ~> (pc = "exited")

\* C23: the shared memory is opened and validated only in response to a
\* HANDSHAKE that is the first control message, and once; the service
\* reaches READY only after such a handshake whose validation succeeded;
\* a HANDSHAKE read while running changes neither the mapping, the
\* shutdown flag nor the loop state.
C23_HandshakeOnce ==
    [][ /\ (shared_memory' # shared_memory)
            => ( /\ pc = "handshake" /\ shared_memory = None
                 /\ hs.first = "none"
                 /\ pipe # <<>> /\ Head(pipe) = "Handshake" )
        /\ ("READY" \notin status /\ "READY" \in status')
            => ( /\ hs'.first = "Handshake" /\ hs'.valid
                 /\ shared_memory' # None )
        /\ (hs'.extra # hs.extra)
            => UNCHANGED <<shared_memory, shutdown, loopVars>> ]_vars

\* the running service has read a second HANDSHAKE and goes on
C23_Witness ==
    /\ "READY" \in status /\ hs.extra > 0
    /\ pc = "drain" /\ reader = "check" /\ ~shutdown
    /\ shared_memory = Some("shmem")

(***************************************************************************)
(* One frame: the guest submits, in order and each whole, the records that *)
(* create render-target texture 1, bind it, clear it, present it and       *)
(* fence the frame, into a ring that holds all five without wrapping.      *)
(***************************************************************************)
FrameRingWords == 56

FrameFence == 2

FrameRecords ==
    << CmdCreateResource(1, 2, 1, 1, D3D11_BIND_RENDER_TARGET, 0, 0),
       CmdSetRenderTarget(1, 0, <<1>>),
       CmdClearRenderTarget(1),
       CmdPresent(1),
       CmdFence(FrameFence, 24) >>

RECURSIVE SeqBytes(_)
SeqBytes(recs) ==
    IF recs = <<>> THEN 0
    ELSE Len(Head(recs)) * WordBytes + SeqBytes(Tail(recs))

InitFrame ==
    /\ ring = [i \in 1..FrameRingWords |-> 0]
    /\ producer_ptr = 0 /\ consumer_ptr = 0 /\ host_fence_completed = 0
    /\ status = {"READY"} /\ error_code = 0 /\ error_data = 0
    /\ gpos = 0 /\ nrec = 0 /\ gfence = 0 /\ published = {}
    /\ guest_fence_request = 0 /\ descriptor = GuestDescriptor
    /\ pc = "top" /\ last_irq_fence = 0 /\ processed = 0
    /\ loop_present = None /\ device_lost_reported = FALSE /\ shutdown = FALSE
    /\ current_fence = 0 /\ pending_present = None /\ pending_resize = None
    /\ resources = <<>> /\ natives = <<>> /\ active_maps = <<>>
    /\ stats = NoStats
    /\ heap = ZeroHeap
    /\ current_rtvs = [i \in 1..8 |-> None] /\ current_dsv = None
    /\ pres_dims = <<1920, 1080>>
    /\ irq_sent = 0
    /\ handed = {} /\ fence_stores = 0 /\ last = NoStep /\ rd = NoRead
    /\ set_err = NoSetError /\ guest_view = NoView
    /\ frame_count = 0 /\ pipeline = DualPipeline /\ resize_log = NoResize
    /\ present_calls = 0
    /\ pipe = <<>> /\ reader = "check" /\ shutdown_event = FALSE
    /\ shared_memory = Some("shmem")
    /\ hs = [first |-> "Handshake", valid |-> TRUE, sent |-> 1, extra |-> 0]

GuestFrame ==
    /\ nrec < Len(FrameRecords)
    /\ GuestWriteUpTo(FrameRecords[nrec + 1],
                      Len(FrameRecords[nrec + 1]) * WordBytes, Len(FrameRecords))

NextFrame == GuestFrame \/ ServiceStep

SpecFrame == InitFrame /\ [][NextFrame]_vars

\* the service loop has consumed the five records, finished the iteration
\* and published no error
FrameProcessed ==
    /\ consumer_ptr = SeqBytes(FrameRecords)
    /\ pc \in {"top", "wait"}
    /\ error_code = 0

\* C24: once the service loop has processed CREATE_RESOURCE of render-target
\* texture 1, SET_RENDER_TARGET, CLEAR_RENDER_TARGET, PRESENT(1) and
\* FENCE(v) without an error, id 1 resolves to a Texture2D with a
\* render-target view, one frame has been presented, host_fence_completed
\* is v and one IRQ has been sent.
C24_FramePresentedOnce ==
    FrameProcessed =>
        /\ get_texture(resources, 1) # None
        /\ get_texture(resources, 1)[1].rtv
        /\ frame_count = 1
        /\ host_fence_completed = FrameFence
        /\ irq_sent = 1

C24_Witness ==
    /\ FrameProcessed
    /\ frame_count = 1 /\ irq_sent = 1
    /\ current_rtvs[1] # None

\* C25: the pending-present and pending-resize slots of the replay engine
\* are empty at the end of every service-loop iteration, and a recorded
\* request is acted on at most once: the loop's present request comes from
\* a PRESENT command of this iteration, a frame is presented or the
\* pipeline resized only by the step after the drain, one at a time, and
\* that step leaves nothing in either slot.
C25_PendingSlotsConsumed ==
    [][ /\ (pc = "post" /\ pc' \in {"top", "wait"})
            => (pending_present' = None /\ pending_resize' = None)
        /\ (loop_present' # loop_present /\ loop_present' # None)
            => /\ pc = "drain" /\ last'.kind = "ok"
               /\ last'.op = PVGPU_CMD_PRESENT
               /\ pending_present' = None
        /\ frame_count' # frame_count
            => /\ pc = "post" /\ loop_present # None
               /\ frame_count' = frame_count + 1
        /\ (pipeline' # pipeline \/ pres_dims' # pres_dims)
            => (pc = "post" /\ pending_resize # None) ]_vars

\* an iteration has ended in which a present request and a resize request
\* were both acted on
C25_Witness ==
    /\ pc \in {"top", "wait"}
    /\ loop_present # None /\ pres_dims = <<2, 3>>
    /\ pending_present = None /\ pending_resize = None

\* the position of the first piece of log that is in pieces, 0 if none
IndexOf(log, pieces) ==
    IF \E i \in 1..Len(log) : log[i] \in pieces
    THEN CHOOSE i \in 1..Len(log) :
            /\ log[i] \in pieces
            /\ \A j \in 1..(i - 1) : log[j] \notin pieces
    ELSE 0

\* C26: for every pending resize the service loop sets RESIZING, then calls
\* presentation.resize with the bit set, then clears it, whether resize
\* succeeds or fails; RESIZING is clear when the iteration ends; after a
\* successful resize to (w, h) the pipeline's dimensions are (w, h).
C26_ResizingBracketsResize ==
    [][ (pc = "post" /\ pc' # "post") =>
          /\ "RESIZING" \notin status'
          /\ pending_resize # None =>
                LET log == last'.log
                    s == IndexOf(log, {"set_status_flag"})
                    r == IndexOf(log, {"resize while RESIZING"})
                    c == IndexOf(log, {"clear_status_flag"})
                IN /\ 0 < s /\ s < r /\ r < c /\ c = Len(log)
                   /\ "resize" \notin {log[i] : i \in 1..Len(log)}
                   /\ (r + 1 = c) => pres_dims' = pending_resize[1] ]_vars

\* an iteration has ended after a resize that failed, with RESIZING clear
C26_Witness ==
    /\ last.kind = "post"
    /\ IndexOf(last.log, {"resize while RESIZING"}) > 0
    /\ IndexOf(last.log, {"set_error"}) > IndexOf(last.log, {"resize while RESIZING"})
    /\ "RESIZING" \notin status /\ "ERROR" \in status
    /\ pres_dims = <<2, 3>>

(***************************************************************************)
(* PresentationPipeline::resize called directly, up to MaxResizeCalls      *)
(* times, on a pipeline of any mode and with any native outcome, so that   *)
(* later calls also start from pipelines a failed resize left behind.      *)
(***************************************************************************)
MaxResizeCalls == 3

ResizeDim == 2

ResizeSizes == (1..ResizeDim) \X (1..ResizeDim)

InitResize ==
    /\ ring = [i \in 1..RingWords |-> 0]
    /\ producer_ptr = 0 /\ consumer_ptr = 0 /\ host_fence_completed = 0
    /\ status = {"READY"} /\ error_code = 0 /\ error_data = 0
    /\ gpos = 0 /\ nrec = 0 /\ gfence = 0 /\ published = {}
    /\ guest_fence_request = 0 /\ descriptor = GuestDescriptor
    /\ pc = "top" /\ last_irq_fence = 0 /\ processed = 0
    /\ loop_present = None /\ device_lost_reported = FALSE /\ shutdown = FALSE
    /\ current_fence = 0 /\ pending_present = None /\ pending_resize = None
    /\ resources = <<>> /\ natives = <<>> /\ active_maps = <<>>
    /\ stats = NoStats
    /\ heap = ZeroHeap
    /\ current_rtvs = [i \in 1..8 |-> None] /\ current_dsv = None
    /\ pres_dims \in ResizeSizes \cup {<<1920, 1080>>}
    /\ irq_sent = 0
    /\ handed = {} /\ fence_stores = 0 /\ last = NoStep /\ rd = NoRead
    /\ set_err = NoSetError /\ guest_view = NoView
    /\ frame_count = 0 /\ present_calls = 0
    /\ pipeline \in {HeadlessPipeline, WindowedPipeline, DualPipeline}
    /\ resize_log = NoResize
    /\ pipe = <<>> /\ reader = "check" /\ shutdown_event = FALSE
    /\ shared_memory = Some("shmem")
    /\ hs = [first |-> "Handshake", valid |-> TRUE, sent |-> 1, extra |-> 0]

ResizeCall ==
    /\ resize_log.n < MaxResizeCalls
    /\ \E d \in ResizeSizes, nat \in ResizeOutcomes :
         LET r == resize(pipeline, pres_dims, d[1], d[2], nat)
         IN /\ pres_dims' = r.dims
            /\ pipeline' = r.pipeline
            /\ resize_log' = [n |-> resize_log.n + 1, w |-> d[1], h |-> d[2],
                              ok |-> r.ok, calls |-> r.calls]
    /\ UNCHANGED <<shmVars, guestVars, loopVars, shutdown, engVars, irq_sent,
                   histVars, errVars, chanVars, frame_count, present_calls,
                   heap>>

NextResize == ResizeCall

SpecResize == InitResize /\ [][NextResize]_vars

\* C27: resize(w, h) immediately after resize(w, h) succeeds without a
\* native call and leaves the dimensions, the swapchain view, the shared
\* texture and its handle as they were; dimensions() is then (w, h).
C27_RepeatedResizeIsNoop ==
    [][ ( /\ resize_log.n >= 1 /\ resize_log'.n = resize_log.n + 1
          /\ resize_log'.w = resize_log.w /\ resize_log'.h = resize_log.h )
        => /\ resize_log'.ok /\ resize_log'.calls = 0
           /\ pres_dims' = pres_dims
           /\ pipeline' = pipeline
           /\ pres_dims' = <<resize_log.w, resize_log.h>> ]_vars

\* a second resize to the size of a first one that did native work
C27_Witness ==
    /\ resize_log.n = 2 /\ resize_log.calls = 0
    /\ pres_dims = <<resize_log.w, resize_log.h>>
    /\ pipeline.made = 4 /\ pipeline.shared_texture = Some(4)

(***************************************************************************)
(* The replay engine on sequences of resource commands: process_command is *)
(* applied to up to MaxCommands records, each written whole at the start   *)
(* of the ring, over a heap whose first PatternLen bytes hold a pattern.   *)
(***************************************************************************)
MaxCommands == 4

PatternLen == 8

HeapPattern == [i \in 1..PatternLen |-> i]

PatternHeap == [i \in 1..HeapSize |-> IF i <= PatternLen THEN i ELSE 0]

\* creations of texture 1, buffer 3 and a texture under id 0; opens of 1 and
\* 3 under 2, under 0 and under the original's own id, and with the wrong
\* type; destroys; an update of buffer 3 from the pattern; a read map of
\* buffer 3 at the upper half of the heap, and its unmap; a write map (2)
\* of buffer 3 and an unmap that carries the pattern
ResourceRecords ==
    { CmdCreateResource(1, 2, 1, 1, D3D11_BIND_RENDER_TARGET, 0, 0),
      CmdCreateResource(3, 4, PatternLen, 0, 0, 0, 0),
      CmdCreateResource(0, 2, 1, 1, 0, 0, 0),
      CmdOpenResource(2, 1, 2), CmdOpenResource(2, 3, 4),
      CmdOpenResource(2, 1, 4), CmdOpenResource(0, 1, 2),
      CmdOpenResource(1, 1, 2),
      CmdDestroyResource(1), CmdDestroyResource(2), CmdDestroyResource(3),
      CmdUpdateResource(3, 0, PatternLen),
      CmdMapResource(3, 0, 1, PatternLen),
      CmdUnmapResource(3, 0, PatternLen, 0),
      CmdMapResource(3, 0, 2, 0),
      CmdUnmapResource(3, 0, 0, PatternLen) }

InitRes ==
    /\ ring = [i \in 1..RingWords |-> 0]
    /\ producer_ptr = 0 /\ consumer_ptr = 0 /\ host_fence_completed = 0
    /\ status = {"READY"} /\ error_code = 0 /\ error_data = 0
    /\ gpos = 0 /\ nrec = 0 /\ gfence = 0 /\ published = {}
    /\ guest_fence_request = 0 /\ descriptor = GuestDescriptor
    /\ pc = "top" /\ last_irq_fence = 0 /\ processed = 0
    /\ loop_present = None /\ device_lost_reported = FALSE /\ shutdown = FALSE
    /\ current_fence = 0 /\ pending_present = None /\ pending_resize = None
    /\ resources = <<>> /\ natives = <<>> /\ active_maps = <<>>
    /\ stats = NoStats
    /\ heap = PatternHeap
    /\ current_rtvs = [i \in 1..8 |-> None] /\ current_dsv = None
    /\ pres_dims = <<1920, 1080>>
    /\ irq_sent = 0
    /\ handed = {} /\ fence_stores = 0 /\ last = NoStep /\ rd = NoRead
    /\ set_err = NoSetError /\ guest_view = NoView
    /\ frame_count = 0 /\ pipeline = DualPipeline /\ resize_log = NoResize
    /\ present_calls = 0
    /\ pipe = <<>> /\ reader = "check" /\ shutdown_event = FALSE
    /\ shared_memory = Some("shmem")
    /\ hs = [first |-> "Handshake", valid |-> TRUE, sent |-> 1, extra |-> 0]

\* process_command on one record of a set; a panic ends the thread
ExecOn(records) ==
    /\ nrec < MaxCommands
    /\ last.kind # "abort"
    /\ \E rec \in records, nat \in {"ok", "fail"} :
         LET mem == [i \in 1..Len(ring) |-> IF i <= Len(rec) THEN rec[i] ELSE 0]
             p == process_command(mem, 0, Len(rec) * WordBytes, heap, 0, nat, Engine)
         IN /\ ring' = mem
            /\ nrec' = nrec + 1
            /\ current_fence' = p.eng.current_fence
            /\ pending_present' = p.eng.pending_present
            /\ pending_resize' = p.eng.pending_resize
            /\ resources' = p.eng.resources
            /\ current_rtvs' = p.eng.current_rtvs
            /\ current_dsv' = p.eng.current_dsv
            /\ natives' = p.eng.natives
            /\ active_maps' = p.eng.active_maps
            /\ stats' = p.eng.stats
            /\ last' = [NoStep EXCEPT !.kind = IF p.ok THEN "ok"
                                               ELSE IF p.abort THEN "abort"
                                               ELSE "err",
                                      !.len = Len(rec) * WordBytes,
                                      !.parsed = p.parsed,
                                      !.dispatched = p.dispatched,
                                      !.op = p.op, !.size = p.size,
                                      !.consumed = p.consumed,
                                      !.tick = 1 - last.tick,
                                      !.nread = p.nread]
    /\ UNCHANGED <<producer_ptr, consumer_ptr, host_fence_completed, status,
                   error_code, error_data, gpos, gfence, published,
                   guest_fence_request, descriptor, loopVars,
                   shutdown, pres_dims, irq_sent, handed, fence_stores, rd,
                   errVars, chanVars, presVars, heap>>

ExecCommand == ExecOn(ResourceRecords)

NextRes == ExecCommand

SpecRes == InitRes /\ [][NextRes]_vars

\* the step applies process_command to a record of opcode op and succeeds
Executes(op) ==
    /\ nrec' = nrec + 1
    /\ last'.kind = "ok" /\ last'.op = op

\* word k of the record the step is applied to
Arg(k) == Fetch(ring', 0, k, 0)

\* C28: after OPEN_RESOURCE(new = J, src = I), where I is a live Texture2D
\* or Buffer and the command names that type, I and J resolve to entries
\* backed by the same live native object; after DESTROY of an id that
\* shares its native object with other ids, the destroyed id resolves to
\* None and the other ids still resolve to that object, which lives on
\* unchanged.
C28_OpenAliasesNative ==
    [][ /\ ( /\ Executes(PVGPU_CMD_OPEN_RESOURCE)
             /\ slab_get(resources, Arg(4)) # None
             /\ open_type_matches(slab_get(resources, Arg(4))[1], Arg(5)) )
           => /\ slab_get(resources', Arg(2)) # None
              /\ slab_get(resources', Arg(4)) # None
              /\ resources'[Arg(2)].kind = resources[Arg(4)].kind
              /\ resources'[Arg(2)].native = resources[Arg(4)].native
              /\ resources'[Arg(4)].native = resources[Arg(4)].native
              /\ resources[Arg(4)].native \in DOMAIN natives'
        /\ ( /\ Executes(PVGPU_CMD_DESTROY_RESOURCE)
             /\ slab_get(resources, Arg(2)) # None
             /\ HoldsNative(resources[Arg(2)]) )
           => /\ slab_get(resources', Arg(2)) = None
              /\ \A k \in (DOMAIN resources) \ {Arg(2)} :
                    ( HoldsNative(resources[k])
                      /\ resources[k].native = resources[Arg(2)].native )
                    => /\ slab_get(resources', k) = Some(resources[k])
                       /\ resources[k].native \in DOMAIN natives'
                       /\ natives'[resources[k].native]
                             = natives[resources[k].native] ]_vars

\* buffer 3 was opened under 2 and destroyed: id 3 is gone and id 2 still
\* resolves to the live native buffer
C28_Witness ==
    /\ last.op = PVGPU_CMD_DESTROY_RESOURCE /\ last.kind = "ok"
    /\ slab_get(resources, 3) = None
    /\ get_buffer(resources, 2) # None
    /\ get_buffer(resources, 2)[1].native \in DOMAIN natives

\* C29: the resource table never holds a live entry at id 0: a create or
\* open command that names id 0 as the new id inserts nothing.
C29_NoEntryAtIdZero == slab_get(resources, 0) = None

\* a texture was created under id 0 and opened again under id 0
C29_Witness ==
    /\ last.op = PVGPU_CMD_OPEN_RESOURCE /\ last.kind = "ok"
    /\ get_texture(resources, 0) # None /\ ~get_texture(resources, 0)[1].rtv
    /\ get_texture(resources, 1) # None

\* C30: when a read map of a buffer that holds the pattern an
\* UPDATE_RESOURCE wrote is unmapped, the heap bytes at the map's
\* heap_offset equal the pattern.
C30_MapReadRoundTrip ==
    [][ ( /\ Executes(PVGPU_CMD_UNMAP_RESOURCE)
          /\ <<Arg(4), Arg(5)>> \in DOMAIN active_maps
          /\ active_maps[<<Arg(4), Arg(5)>>].kind = "Buffer"
          /\ active_maps[<<Arg(4), Arg(5)>>].data = HeapPattern )
        => \A i \in 1..PatternLen :
              HeapByte(heap', Arg(6) + i - 1, 0) = HeapPattern[i] ]_vars

\* buffer 3 holds the pattern, its read map was unmapped, and the upper
\* half of the heap does not hold the pattern
C30_Witness ==
    /\ last.op = PVGPU_CMD_UNMAP_RESOURCE /\ last.kind = "ok"
    /\ nrec = 4 /\ active_maps = <<>>
    /\ get_buffer(resources, 3) # None
    /\ natives[get_buffer(resources, 3)[1].native].data = HeapPattern
    /\ \E i \in 1..PatternLen : heap[PatternLen + i] # HeapPattern[i]

\* C31: UNMAP_RESOURCE of a map of type Read, with any data_size, leaves
\* the contents of the original resource unchanged.
C31_ReadUnmapKeepsOriginal ==
    [][ ( /\ Executes(PVGPU_CMD_UNMAP_RESOURCE)
          /\ <<Arg(4), Arg(5)>> \in DOMAIN active_maps
          /\ active_maps[<<Arg(4), Arg(5)>>].map_type = 1 )
        => LET orig == active_maps[<<Arg(4), Arg(5)>>].original
           IN /\ orig \in DOMAIN natives'
              /\ natives'[orig] = natives[orig] ]_vars

\* a read map of buffer 3 was unmapped with data_size > 0
C31_Witness ==
    /\ last.op = PVGPU_CMD_UNMAP_RESOURCE /\ last.kind = "ok"
    /\ Fetch(ring, 0, 7, 0) = PatternLen
    /\ nrec = 3 /\ active_maps = <<>>
    /\ get_buffer(resources, 3) # None
    /\ natives[get_buffer(resources, 3)[1].native].data = HeapPattern

C33_CompletedAtMostRequested == host_fence_completed <= guest_fence_request

\* C34: every record published in the ring is eventually processed, with no
\* doorbell needed: records are processed in ring order, each at its own
\* consumer position, so once n records are published, n distinct positions
\* are eventually handed to process_command.
C34_PublishedEventuallyProcessed ==
    \A n \in 1..MaxRecords : (nrec >= n) ~> (Cardinality(handed) >= n)

\* the loop has waited on the doorbell with nothing pending, and a record
\* published since is at the consumer position, not yet handed over
C34_Witness ==
    /\ pc = "wait" /\ processed = 0
    /\ producer_ptr > consumer_ptr /\ consumer_ptr \notin handed

(***************************************************************************)
(* The replay engine on sequences of state and draw commands:              *)
(* process_command is applied to up to MaxCommands records, each written   *)
(* at the start of the ring with the size its header declares.             *)
(***************************************************************************)
\* a creation that succeeds or fails in the native device, one that is
\* rejected, a destroy, a draw, a dispatch, a present; state records that
\* carry the first element of their array, with a count of one and with a
\* count above the capacity of the array
StateRecords ==
    { CmdCreateResource(1, 2, 1, 1, D3D11_BIND_RENDER_TARGET, 0, 0),
      CmdCreateResource(2, 5, 0, 0, 0, 0, 0),
      CmdDestroyResource(1), CmdDraw(3, 0), CmdDispatch(1, 1, 1), CmdPresent(1),
      CmdSetRenderTarget(9, 0, <<>>),
      CmdSetViewport(1), CmdSetViewport(17),
      CmdSetScissor(1), CmdSetScissor(17),
      CmdSetVertexBuffer(0, 17), CmdSetSamplers(0, 0, 17),
      CmdSetShaderResources(0, 0, 129) }

ExecState == ExecOn(StateRecords)

NextState == ExecState

SpecState == InitRes /\ [][NextState]_vars

\* the step is a call of process_command
Called == nrec' = nrec + 1

\* 1 when the call just made returned success for a record of one of ops
Succeeded(ops) == IF last'.kind = "ok" /\ last'.op \in ops THEN 1 ELSE 0

\* C35: the statistics equal the event counts: each call of process_command
\* raises commands_processed by one when the command was processed, draw_calls
\* for the four draw opcodes and DISPATCH, presents for PRESENT,
\* resources_created and resources_destroyed for CREATE_RESOURCE and
\* DESTROY_RESOURCE, and errors by one when the call returned an error.
C35_StatisticsCountEvents ==
    [][ Called =>
        /\ stats'.commands_processed =
               stats.commands_processed + (IF last'.kind = "ok" THEN 1 ELSE 0)
        /\ stats'.draw_calls = stats.draw_calls + Succeeded(DrawCommands)
        /\ stats'.presents = stats.presents + Succeeded({PVGPU_CMD_PRESENT})
        /\ stats'.resources_created =
               stats.resources_created + Succeeded({PVGPU_CMD_CREATE_RESOURCE})
        /\ stats'.resources_destroyed =
               stats.resources_destroyed + Succeeded({PVGPU_CMD_DESTROY_RESOURCE})
        /\ stats'.errors = stats.errors + (IF last'.kind = "err" THEN 1 ELSE 0)
      ]_vars

\* a command has returned an error after others were counted
C35_Witness ==
    /\ last.kind = "err" /\ nrec = MaxCommands
    /\ stats.commands_processed = MaxCommands - 1
    /\ stats.draw_calls = 1 /\ stats.presents = 1 /\ stats.resources_created = 1
    /\ stats.errors = 0

\* C36: a handler reads only bytes of its record: the payload structure is
\* read only when size_total and the pending slice are at least the size of
\* the structure, so the read ends within the record, within the pending
\* bytes and before the end of the ring.
C36_DecodeStaysInRecord ==
    [][ (Called /\ last'.dispatched)
        => ( /\ last'.nread * WordBytes <= last'.size
             /\ last'.nread * WordBytes <= last'.len
             /\ (last'.pos % RingSize) + last'.nread * WordBytes <= RingSize )
      ]_vars

\* SET_VIEWPORT with one viewport, 44 bytes in all, was processed
C36_Witness ==
    /\ last.kind = "ok" /\ last.op = PVGPU_CMD_SET_VIEWPORT
    /\ last.size = 44 /\ last.len = 44
    /\ Fetch(ring, 0, 4, 0) = 1
    /\ last.nread * WordBytes > last.size

\* C37: process_command returns success or an error for every record and
\* never aborts the thread: a count above the capacity of the inline array
\* (num_rtvs > 8, num_viewports > 16, num_rects > 16, and the counts of
\* vertex buffers, samplers and shader resources) is clamped or rejected.
C37_NeverAborts ==
    [][ Called => last'.kind \in {"ok", "err"} ]_vars

\* a count above the capacity was clamped: SET_VERTEX_BUFFER with 17
\* buffers returned success
C37_Witness ==
    /\ last.kind = "ok" /\ last.op = PVGPU_CMD_SET_VERTEX_BUFFER
    /\ Fetch(ring, 0, 5, 0) = 17

(***************************************************************************)
(* Presents, a resize and a fence: the guest submits, in order and each    *)
(* whole, the records that create texture 1, resize the swapchain, present *)
(* texture 1 twice and fence, into a ring that holds them unwrapped; the   *)
(* service loop runs at any pace against the guest.                        *)
(***************************************************************************)
PresentRecords ==
    << CmdCreateResource(1, 2, 1, 1, D3D11_BIND_RENDER_TARGET, 0, 0),
       CmdResizeBuffers(0, 2, 3),
       CmdPresent(1),
       CmdPresent(1),
       CmdFence(FrameFence, 24) >>

GuestPresent ==
    /\ nrec < Len(PresentRecords)
    /\ GuestWriteUpTo(PresentRecords[nrec + 1],
                      Len(PresentRecords[nrec + 1]) * WordBytes,
                      Len(PresentRecords))

NextPresent == GuestPresent \/ ServiceStep

SpecPresent == InitFrame /\ [][NextPresent]_vars

\* C38: when host_fence_completed is raised to f and the IRQ is sent, every
\* PRESENT record that precedes FENCE(f) in the ring has been handed to the
\* presentation pipeline: no PRESENT processed before the fence is still
\* waiting in the loop for its call of presentation.present.
C38_PresentedBeforeFence ==
    [][ host_fence_completed' # host_fence_completed
        => (loop_present' = None /\ pending_present' = None) ]_vars

\* the fence is completed and its IRQ sent while the PRESENT before it has
\* not been presented
C38_Witness ==
    /\ host_fence_completed = FrameFence /\ irq_sent = 1
    /\ present_calls < stats.presents /\ loop_present # None
    /\ last.op = PVGPU_CMD_FENCE

\* C39: every successfully processed PRESENT record whose backbuffer id
\* resolves to a texture causes exactly one call of presentation.present,
\* also when several are processed in one drain pass: at the end of every
\* iteration the calls made are as many as the PRESENT records processed.
C39_OneCallPerPresent ==
    (pc \in {"top", "wait"} /\ get_texture(resources, 1) # None)
        => present_calls = stats.presents

\* two PRESENT records were processed in one drain pass and the iteration
\* has ended
C39_Witness ==
    /\ pc = "top" /\ get_texture(resources, 1) # None
    /\ stats.presents = 2 /\ present_calls = 1
    /\ processed = 2 * 32

\* C40: a RESIZE_BUFFERS record (swapchain 0, nonzero size) that precedes a
\* PRESENT record in the ring is applied to the presentation pipeline before
\* that PRESENT is presented, also when both are processed in one drain
\* pass: when presentation.present is called, no resize request of an
\* earlier record is still pending.
C40_ResizeBeforePresent ==
    [][ present_calls' # present_calls => pending_resize = None ]_vars

\* a frame was presented and then, in the same step after the drain, the
\* resize of the record before it was applied
C40_Witness ==
    /\ last.kind = "post" /\ present_calls = 1
    /\ Len(last.log) > 1
    /\ last.log[1] = "present"
    /\ contains(last.log, "resize while RESIZING")
    /\ pres_dims = <<2, 3>>

=============================================================================
